---------------------------- MODULE Spec2Model ----------------------------
(***************************************************************************)
(* Stakeholder prioritisation and influence graph of the humanitarian      *)
(* negotiation server: the tool surface (humanitarian_negotiation_mcp.py)  *)
(* and the HTTP surface (http_server.py).                                  *)
(*                                                                         *)
(* Numbers.  The four attributes of a stakeholder are Python floats.  The  *)
(* model draws them from the grid of tenths: the integer k stands for the  *)
(* double that the literal k/10 parses to.  A comparison of one attribute  *)
(* with a literal (>= 0.7, >= 0.5, > 0.5, ...) is then the comparison of   *)
(* the integers.  A sum of attributes is computed as the code computes it, *)
(* in IEEE-754 binary64 with round-to-nearest-even (Dbl, FAdd below).      *)
(***************************************************************************)
EXTENDS Integers, Sequences, FiniteSets, TLC

VARIABLES
    sh,          \* the record handed to one pass of a classifier loop
    entry,       \* tool surface: the dict appended for sh (lines 789-801)
    http_entry,  \* HTTP surface: the dict appended for sh (lines 427-437)
    params,      \* tool surface: params.stakeholders of the last call
    analysis,    \* tool surface: the dict _analyze_stakeholder_landscape returned
    output,      \* tool surface: the string analyze_stakeholders returned
    leverage_params,  \* the params of a call of leverage_stakeholder_influence
    leverage_result,  \* what that call returned, or the exception it raised
    http_request,     \* HTTP surface: the request handed to a handler
    http_response,    \* HTTP surface: what the handler returned or raised
    now,         \* the clock datetime.utcnow() reads
    previous,    \* the params and the output of the call before this one
    tasks,       \* the locals of the handlers that are running side by side
    module_level \* the values of the names bound at module level

classify_vars == <<sh, entry, http_entry>>

analyze_vars == <<params, analysis, output>>

leverage_vars == <<leverage_params, leverage_result>>

http_vars == <<http_request, http_response>>

task_vars == <<tasks, module_level>>

vars == <<classify_vars, analyze_vars, leverage_vars, http_vars, now, previous, task_vars>>

\* Python's None, where a variable holds no dict yet
None == [none |-> TRUE]

MAX_STAKEHOLDERS == 50

\* the constants of lines 26-28
ModuleLevel ==
    [ CHARACTER_LIMIT     |-> 25000,
      MAX_STAKEHOLDERS    |-> MAX_STAKEHOLDERS,
      MAX_ANALYSIS_LENGTH |-> 20000 ]

---------------------------------------------------------------------------
(* Input values                                                            *)

\* power, urgency, legitimacy: Field(ge=0.0, le=1.0), in tenths
UnitTenths == 0..10

\* position: Field(ge=-1.0, le=1.0), in tenths
PositionTenths == -10..10

\* the literal 0.7 of the threshold-count classifier, in tenths
HIGH == 7

\* the literals 0.5 and -0.5 of the stance thresholds, in tenths
HALF == 5

---------------------------------------------------------------------------
(* IEEE-754 binary64 on the range the salience sum needs, [0, 4).          *)
(* A double is [hi, lo], standing for (hi * 2^28 + lo) * 2^-56.            *)

Limb == 2^28

Piece == 2^14

\* the unit in the last place, in units of 2^-56, of a value with leading limb hi
Ulp(hi) ==
    IF hi < 2^25 THEN 1
    ELSE IF hi < 2^26 THEN 2
    ELSE IF hi < 2^27 THEN 4
    ELSE IF hi < 2^28 THEN 8
    ELSE IF hi < 2^29 THEN 16
    ELSE 32

\* round-to-nearest, ties-to-even, of hi*2^28 + lo + (a fraction of a unit);
\* below is "zero", "lt", "half" or "gt": that fraction against one half
RoundNearestEven(hi, lo, below) ==
    LET u     == Ulp(hi)
        r     == lo % u
        down  == lo - r
        odd   == ((lo \div u) % 2) = 1
        up    == IF u = 1
                 THEN below = "gt" \/ (below = "half" /\ odd)
                 ELSE \/ 2 * r > u
                      \/ (2 * r = u /\ below # "zero")
                      \/ (2 * r = u /\ below = "zero" /\ odd)
        lo2   == IF up THEN down + u ELSE down
    IN  IF lo2 >= Limb THEN [hi |-> hi + 1, lo |-> lo2 - Limb]
        ELSE [hi |-> hi, lo |-> lo2]

\* the double a JSON number k/10 parses to: k * 2^56 / 10 by long division
\* in pieces of 14 bits, then rounded to 53 significant bits
Dbl(k) ==
    LET q4 == k \div 10
        r4 == k % 10
        q3 == (r4 * Piece) \div 10
        r3 == (r4 * Piece) % 10
        q2 == (r3 * Piece) \div 10
        r2 == (r3 * Piece) % 10
        q1 == (r2 * Piece) \div 10
        r1 == (r2 * Piece) % 10
        q0 == (r1 * Piece) \div 10
        r0 == (r1 * Piece) % 10
        below == IF r0 = 0 THEN "zero"
                 ELSE IF 2 * r0 < 10 THEN "lt"
                 ELSE IF 2 * r0 = 10 THEN "half" ELSE "gt"
    IN  RoundNearestEven(q4 * Limb + q3 * Piece + q2, q1 * Piece + q0, below)

\* x + y on doubles
FAdd(x, y) ==
    LET lo == x.lo + y.lo
        c  == IF lo >= Limb THEN 1 ELSE 0
    IN  RoundNearestEven(x.hi + y.hi + c, lo - c * Limb, "zero")

\* x >= n for a double x and an integer n in 0..3
FGeInt(x, n) == x.hi >= n * Limb

---------------------------------------------------------------------------
(* Tool surface: the body of the loop of _analyze_stakeholder_landscape    *)

\* high_attrs with the threshold at 0.6
high_attrs_from_six(s) ==
    (IF s.power >= HIGH - 1 THEN 1 ELSE 0)
      + (IF s.urgency >= HIGH - 1 THEN 1 ELSE 0)
      + (IF s.legitimacy >= HIGH - 1 THEN 1 ELSE 0)

\* high_attrs with the threshold exclusive: 0.7 itself not counted
high_attrs_exclusive(s) ==
    (IF s.power > HIGH THEN 1 ELSE 0)
      + (IF s.urgency > HIGH THEN 1 ELSE 0)
      + (IF s.legitimacy > HIGH THEN 1 ELSE 0)

\* "Count high attributes (>= 0.7 threshold)"
high_attrs(s) ==
    (IF s.power >= HIGH THEN 1 ELSE 0)
      + (IF s.urgency >= HIGH THEN 1 ELSE 0)
      + (IF s.legitimacy >= HIGH THEN 1 ELSE 0)

priority(s) ==
    IF high_attrs(s) = 3 THEN "First Priority"
    ELSE IF high_attrs(s) = 2 THEN "Second Priority"
    ELSE "Third Priority"

\* stance with both boundaries exclusive
stance_exclusive(s) ==
    IF s.position > HALF THEN "Supportive"
    ELSE IF s.position < -HALF THEN "Opposed"
    ELSE "Neutral"

stance(s) ==
    IF s.position >= HALF THEN "Supportive"
    ELSE IF s.position <= -HALF THEN "Opposed"
    ELSE "Neutral"

\* the strategy set beside the priority
strategy(s) ==
    IF high_attrs(s) = 3 THEN "Actively engage and manage opposition"
    ELSE IF high_attrs(s) = 2 THEN "Selective engagement - leverage allies, monitor risks"
    ELSE "Minimal engagement unless influence increases"

\* sh.role or "Not specified": a record of the model that bears no role is
\* one whose role is left at its default, None
role_or_default(s) == IF "role" \in DOMAIN s THEN s.role ELSE "Not specified"

\* the dict appended to stakeholder_analysis for one record
stakeholder_entry(s) ==
    [ name                  |-> s.name,
      role                  |-> role_or_default(s),
      power                 |-> s.power,
      urgency               |-> s.urgency,
      legitimacy            |-> s.legitimacy,
      position              |-> s.position,
      stance                |-> stance(s),
      priority              |-> priority(s),
      priority_score        |-> high_attrs(s),
      engagement_strategy   |-> strategy(s),
      influence_connections |-> s.influence_connections ]

---------------------------------------------------------------------------
(* HTTP surface: the body of the loop of api_analyze_stakeholders          *)

\* salience = sh.power + sh.urgency + sh.legitimacy, left to right
salience(s) == FAdd(FAdd(Dbl(s.power), Dbl(s.urgency)), Dbl(s.legitimacy))

\* http_priority by the count of high attributes, as on the tool surface
http_priority_by_count(s) ==
    IF high_attrs(s) = 3 THEN "First"
    ELSE IF high_attrs(s) = 2 THEN "Second"
    ELSE "Third"

http_priority(s) ==
    IF FGeInt(salience(s), 2) THEN "First"
    ELSE IF FGeInt(salience(s), 1) THEN "Second"
    ELSE "Third"

\* round(salience, 2), in tenths: the two-decimal number nearest the sum
salience_score(s) == s.power + s.urgency + s.legitimacy

engagement_strategy(s) ==
    IF s.position > HALF THEN "Supportive"
    ELSE IF s.position > -HALF THEN "Neutral"
    ELSE "Adversarial"

\* the dict appended to stakeholder_priorities for one record
http_stakeholder_entry(s) ==
    [ name                |-> s.name,
      power               |-> s.power,
      urgency             |-> s.urgency,
      legitimacy          |-> s.legitimacy,
      position            |-> s.position,
      salience_score      |-> salience_score(s),
      priority_level      |-> http_priority(s),
      influenced_by       |-> s.influence_connections,
      engagement_strategy |-> engagement_strategy(s) ]

---------------------------------------------------------------------------
(* HTTP surface: the allies and opponents of api_leverage_influence, over  *)
(* the "stakeholders" list of the payload                                  *)

\* s.get("position", 0) > 0.5 and s.get("name") != target_stakeholder_name
allies(stakeholders, target_stakeholder_name) ==
    SelectSeq(stakeholders,
              LAMBDA s : s.position > HALF /\ s.name # target_stakeholder_name)

\* s.get("position", 0) < -0.5
opponents(stakeholders) ==
    SelectSeq(stakeholders, LAMBDA s : s.position < -HALF)

---------------------------------------------------------------------------
(* Python containers                                                       *)

\* sorted(xs, key=..., reverse=True) and list.sort(key=..., reverse=True):
\* descending and stable, so elements with equal keys keep their order in xs.
\* keys[i] is the key of xs[i], a tuple of integers; tuples compare
\* lexicographically.
tuple_gt(a, b) ==
    \E i \in 1..Len(a) : a[i] > b[i] /\ \A j \in 1..(i - 1) : a[j] = b[j]

\* the index i put into the sorted list p of smaller indices: after those
\* whose key is greater or equal, before those whose key is less
insert_at(p, i, n) == SubSeq(p, 1, n) \o <<i>> \o SubSeq(p, n + 1, Len(p))

insert_by_key(p, i, keys) ==
    insert_at(p, i, Cardinality({j \in 1..Len(p) : ~tuple_gt(keys[i], keys[p[j]])}))

\* the indices lo..hi put into the sorted list p one after the other: the
\* first half of them, then, into the list that gave, the second half
RECURSIVE insert_range(_, _, _, _)
insert_range(p, keys, lo, hi) ==
    IF lo > hi THEN p
    ELSE IF lo = hi THEN insert_by_key(p, lo, keys)
    ELSE CHOOSE r \in {insert_range(q, keys, (lo + hi) \div 2 + 1, hi) :
                          q \in {insert_range(p, keys, lo, (lo + hi) \div 2)}} : TRUE

\* the indices of keys in the order the sort leaves them
sort_permutation(keys) == insert_range(<< >>, keys, 1, Len(keys))

permute(xs, perm) == [r \in 1..Len(perm) |-> xs[perm[r]]]

sorted_reverse(xs, keys) == permute(xs, sort_permutation(keys))

\* xs[:n]
take(xs, n) == SubSeq(xs, 1, IF Len(xs) < n THEN Len(xs) ELSE n)

\* A dict is the sequence of its items [key, value] in insertion order.
dict_has(d, k) == \E i \in 1..Len(d) : d[i].key = k

dict_get(d, k) == d[CHOOSE i \in 1..Len(d) : d[i].key = k].value

\* d[k] = v: a key already present keeps its place and takes the new value
dict_set(d, k, v) ==
    IF dict_has(d, k)
    THEN [i \in 1..Len(d) |-> IF d[i].key = k THEN [key |-> k, value |-> v] ELSE d[i]]
    ELSE Append(d, [key |-> k, value |-> v])

\* if k not in d: d[k] = []  followed by  d[k].append(x)
dict_append(d, k, x) ==
    IF dict_has(d, k) THEN dict_set(d, k, Append(dict_get(d, k), x))
    ELSE dict_set(d, k, <<x>>)

\* sum(len(v) for v in d.values())
sum_len_values(d) ==
    LET f[i \in 0..Len(d)] == IF i = 0 THEN 0 ELSE f[i - 1] + Len(d[i].value)
    IN  f[Len(d)]

---------------------------------------------------------------------------
(* Tool surface: _analyze_relationships                                    *)

\* the length of the [:5] slices of key_connectors and key_influencers
TOP == 5

\* influence_map after the passes lo..hi of the loop, d being the dict
\* before them: the first half of the passes, then the second half
RECURSIVE influence_map_range(_, _, _, _)
influence_map_range(d, stakeholders, lo, hi) ==
    IF lo > hi THEN d
    ELSE IF lo = hi
         THEN dict_set(d, stakeholders[lo].name, stakeholders[lo].influence_connections)
    ELSE CHOOSE r \in {influence_map_range(e, stakeholders, (lo + hi) \div 2 + 1, hi) :
                          e \in {influence_map_range(d, stakeholders, lo,
                                                     (lo + hi) \div 2)}} : TRUE

\* influence_map after the loop over stakeholders
influence_map(stakeholders) ==
    influence_map_range(<< >>, stakeholders, 1, Len(stakeholders))

\* influenced_by_one keeping each influencer once per name, as a set would
influenced_by_one_distinct(d, s) ==
    LET c == s.influence_connections
        g[j \in 0..Len(c)] ==
            IF j = 0 THEN d
            ELSE IF \E i \in 1..(j - 1) : c[i] = c[j] THEN g[j - 1]
            ELSE dict_append(g[j - 1], c[j], s.name)
    IN  g[Len(c)]

\* influenced_by after the inner loop over one record's influence_connections
influenced_by_one(d, s) ==
    LET c == s.influence_connections
        g[j \in 0..Len(c)] ==
            IF j = 0 THEN d ELSE dict_append(g[j - 1], c[j], s.name)
    IN  g[Len(c)]

\* influenced_by after the passes lo..hi of the loop over stakeholders, d
\* being the dict before them
RECURSIVE influenced_by_range(_, _, _, _)
influenced_by_range(d, stakeholders, lo, hi) ==
    IF lo > hi THEN d
    ELSE IF lo = hi THEN influenced_by_one(d, stakeholders[lo])
    ELSE CHOOSE r \in {influenced_by_range(e, stakeholders, (lo + hi) \div 2 + 1, hi) :
                          e \in {influenced_by_range(d, stakeholders, lo,
                                                     (lo + hi) \div 2)}} : TRUE

\* influenced_by after the loop over stakeholders
influenced_by(stakeholders) ==
    influenced_by_range(<< >>, stakeholders, 1, Len(stakeholders))

\* key=lambda x: x[1] on the (name, len(...)) pairs of the items of d
count_keys(d) == [i \in 1..Len(d) |-> <<Len(d[i].value)>>]

\* connectors as sorted(...)[::-1] would give them: equal counts reversed
connectors_reversed(stakeholders) ==
    LET d  == influence_map(stakeholders)
        perm == sort_permutation([i \in 1..Len(d) |-> <<0 - Len(d[i].value)>>])
    IN  [i \in 1..Len(d) |-> d[perm[Len(d) + 1 - i]]]

\* sorted(d.items(), key=lambda x: x[1], reverse=True), x[1] being a length
sorted_by_count(d) == sorted_reverse(d, count_keys(d))

connectors(stakeholders) == sorted_by_count(influence_map(stakeholders))

influencers(stakeholders) == sorted_by_count(influenced_by(stakeholders))

\* [{"name": name, "influences_count": count} for name, count in ...]
connector_dicts(c) ==
    [i \in 1..Len(c) |-> [name |-> c[i].key, influences_count |-> Len(c[i].value)]]

\* [{"name": name, "influenced_by_count": count} for name, count in ...]
influencer_dicts(c) ==
    [i \in 1..Len(c) |-> [name |-> c[i].key, influenced_by_count |-> Len(c[i].value)]]

key_connectors(stakeholders) == connector_dicts(take(connectors(stakeholders), TOP))

key_influencers(stakeholders) == influencer_dicts(take(influencers(stakeholders), TOP))

total_connections(stakeholders) == sum_len_values(influence_map(stakeholders))

analyze_relationships(stakeholders) ==
    [ key_connectors    |-> key_connectors(stakeholders),
      key_influencers   |-> key_influencers(stakeholders),
      total_connections |-> total_connections(stakeholders) ]

---------------------------------------------------------------------------
(* Tool surface: _analyze_stakeholder_landscape                            *)

\* key=lambda x: (x['priority_score'], x['power'])
score_then_power(x) == <<x.priority_score, x.power>>

\* the sort with the priority_score alone for key
sort_by_score(sa) ==
    sorted_reverse(sa, [i \in 1..Len(sa) |-> <<sa[i].priority_score>>])

\* stakeholder_analysis.sort(key=..., reverse=True)
sort_by_score_then_power(sa) ==
    sorted_reverse(sa, [i \in 1..Len(sa) |-> score_then_power(sa[i])])

\* stakeholder_analysis after the loop and the sort
stakeholder_analysis(stakeholders) ==
    sort_by_score_then_power(
        [i \in 1..Len(stakeholders) |-> stakeholder_entry(stakeholders[i])])

IsFirst(s) == s.priority = "First Priority"

\* IsSecond by the score, with the bound open above
IsSecondOrHigher(s) == s.priority_score >= 2

IsSecond(s) == s.priority = "Second Priority"

IsThird(s) == s.priority = "Third Priority"

first_priority(sa) == SelectSeq(sa, IsFirst)

second_priority(sa) == SelectSeq(sa, IsSecond)

third_priority(sa) == SelectSeq(sa, IsThird)

\* the names of a list of entries: [s['name'] for s in group]
names_of(group) == [i \in 1..Len(group) |-> group[i].name]

\* _generate_engagement_strategies: the lists of names (the descriptions and
\* the actions are fixed texts)
generate_engagement_strategies(first, second, third) ==
    [ first_priority_strategy  |-> [stakeholders |-> names_of(first)],
      second_priority_strategy |-> [stakeholders |-> names_of(second)],
      third_priority_strategy  |-> [stakeholders |-> names_of(third)] ]

\* datetime.utcnow().isoformat(): the reading of the clock, as a string
utcnow_isoformat == ToString(now)

\* the dict built from the sorted list sa (lines 806-834)
landscape(context, stakeholders, sa) ==
        [ metadata              |-> [ context            |-> context,
                                      total_stakeholders |-> Len(stakeholders),
                                      analysis_date      |-> utcnow_isoformat ],
          all_stakeholders      |-> sa,
          priority_groups       |-> [ first_priority  |-> first_priority(sa),
                                      second_priority |-> second_priority(sa),
                                      third_priority  |-> third_priority(sa) ],
          relationship_analysis |-> analyze_relationships(sa),
          engagement_strategies |->
              generate_engagement_strategies(first_priority(sa), second_priority(sa),
                                             third_priority(sa)) ]

analyze_stakeholder_landscape(context, stakeholders) ==
    landscape(context, stakeholders, stakeholder_analysis(stakeholders))

---------------------------------------------------------------------------
(* Strings the tools return.  A JSON text is the tree of its tokens: an    *)
(* object [obj |-> its members <<key, text>> in the order written], an     *)
(* array [arr |-> its elements], a string [str |-> ...], an integer        *)
(* [int |-> ...], and a float [float |-> <<sign, units, tenths>>], the     *)
(* digits repr() writes for a double of the grid ("0.7", "-0.5", "1.0").   *)
(* A Markdown text is [md |-> the values its lines are filled with], an    *)
(* error message [plain |-> its words].                                    *)

JStr(s) == [str |-> s]

JInt(n) == [int |-> n]

\* repr of the double the tenths k stand for
JFloat(k) ==
    [float |-> <<IF k < 0 THEN -1 ELSE 1,
                 (IF k < 0 THEN 0 - k ELSE k) \div 10,
                 (IF k < 0 THEN 0 - k ELSE k) % 10>>]

JArr(xs) == [arr |-> xs]

JObj(members) == [obj |-> members]

\* a list of strings
dumps_strings(xs) == JArr([i \in 1..Len(xs) |-> JStr(xs[i])])

\* one dict of all_stakeholders, its keys in the order of lines 789-801
dumps_entry(e) ==
    JObj(<< <<"name", JStr(e.name)>>,
            <<"role", JStr(e.role)>>,
            <<"power", JFloat(e.power)>>,
            <<"urgency", JFloat(e.urgency)>>,
            <<"legitimacy", JFloat(e.legitimacy)>>,
            <<"position", JFloat(e.position)>>,
            <<"stance", JStr(e.stance)>>,
            <<"priority", JStr(e.priority)>>,
            <<"priority_score", JInt(e.priority_score)>>,
            <<"engagement_strategy", JStr(e.engagement_strategy)>>,
            <<"influence_connections", dumps_strings(e.influence_connections)>> >>)

dumps_entries(es) == JArr([i \in 1..Len(es) |-> dumps_entry(es[i])])

dumps_connectors(cs) ==
    JArr([i \in 1..Len(cs) |->
             JObj(<< <<"name", JStr(cs[i].name)>>,
                     <<"influences_count", JInt(cs[i].influences_count)>> >>)])

dumps_influencers(cs) ==
    JArr([i \in 1..Len(cs) |->
             JObj(<< <<"name", JStr(cs[i].name)>>,
                     <<"influenced_by_count", JInt(cs[i].influenced_by_count)>> >>)])

dumps_strategy(s) == JObj(<< <<"stakeholders", dumps_strings(s.stakeholders)>> >>)

\* json.dumps(analysis, indent=2, ensure_ascii=False)
json_dumps(a) ==
    JObj(<< <<"metadata",
              JObj(<< <<"context", JStr(a.metadata.context)>>,
                      <<"total_stakeholders", JInt(a.metadata.total_stakeholders)>>,
                      <<"analysis_date", JStr(a.metadata.analysis_date)>> >>)>>,
            <<"all_stakeholders", dumps_entries(a.all_stakeholders)>>,
            <<"priority_groups",
              JObj(<< <<"first_priority", dumps_entries(a.priority_groups.first_priority)>>,
                      <<"second_priority", dumps_entries(a.priority_groups.second_priority)>>,
                      <<"third_priority", dumps_entries(a.priority_groups.third_priority)>> >>)>>,
            <<"relationship_analysis",
              JObj(<< <<"key_connectors",
                        dumps_connectors(a.relationship_analysis.key_connectors)>>,
                      <<"key_influencers",
                        dumps_influencers(a.relationship_analysis.key_influencers)>>,
                      <<"total_connections",
                        JInt(a.relationship_analysis.total_connections)>> >>)>>,
            <<"engagement_strategies",
              JObj(<< <<"first_priority_strategy",
                        dumps_strategy(a.engagement_strategies.first_priority_strategy)>>,
                      <<"second_priority_strategy",
                        dumps_strategy(a.engagement_strategies.second_priority_strategy)>>,
                      <<"third_priority_strategy",
                        dumps_strategy(a.engagement_strategies.third_priority_strategy)>> >>)>> >>)

\* the value a JSON text stands for: a dict is a function on its keys (a
\* key written twice keeps its last value), a list a sequence, a float the
\* tenths its digits spell
RECURSIVE loads_value(_)
loads_value(t) ==
    IF "obj" \in DOMAIN t THEN
        LET keys == {t.obj[i][1] : i \in 1..Len(t.obj)}
            last(k) == CHOOSE i \in 1..Len(t.obj) :
                           t.obj[i][1] = k /\ \A j \in (i + 1)..Len(t.obj) : t.obj[j][1] # k
        IN  [k \in keys |-> loads_value(t.obj[last(k)][2])]
    ELSE IF "arr" \in DOMAIN t THEN [i \in 1..Len(t.arr) |-> loads_value(t.arr[i])]
    ELSE IF "str" \in DOMAIN t THEN t.str
    ELSE IF "int" \in DOMAIN t THEN t.int
    ELSE t.float[1] * (10 * t.float[2] + t.float[3])

\* json.loads(text): the value, or JSONDecodeError for a text that is not JSON
json_loads(text) ==
    IF "md" \in DOMAIN text \/ "plain" \in DOMAIN text THEN [raised |-> "JSONDecodeError"]
    ELSE [returned |-> loads_value(text)]

\* the lines "- **name** (stance) - engagement_strategy" of one group
md_group(group) ==
    [i \in 1..Len(group) |-> <<group[i].name, group[i].stance, group[i].engagement_strategy>>]

\* _format_stakeholder_markdown: the header, the rows of the table, the
\* lines of the three groups, of the key connectors and of the key
\* influencers (the strategy texts and the next steps are fixed lines)
format_stakeholder_markdown(a, context) ==
    [md |->
        [ header |-> <<context, a.metadata.total_stakeholders, a.metadata.analysis_date>>,
          table  |-> [i \in 1..Len(a.all_stakeholders) |->
                         LET e == a.all_stakeholders[i]
                         IN  <<e.name, e.role, e.power, e.urgency, e.legitimacy,
                               e.position, e.stance, e.priority>>],
          first_priority  |-> md_group(a.priority_groups.first_priority),
          second_priority |-> md_group(a.priority_groups.second_priority),
          third_priority  |-> md_group(a.priority_groups.third_priority),
          key_connectors  |-> a.relationship_analysis.key_connectors,
          key_influencers |-> a.relationship_analysis.key_influencers ]]

---------------------------------------------------------------------------
(* Tool surface: _generate_influence_tactics and the helpers it calls, on  *)
(* the value json.loads gave.  A subscript d[k] on a dict without the key  *)
(* k raises KeyError.                                                      *)

\* lower leaving every letter as it is
lower_unchanged(s) == s

\* str.lower() on the names of the model: every name that has an upper-case
\* letter is in the table
lower(s) ==
    CASE s \in {"UN", "Un", "un"}       -> "un"
      [] s \in {"Gov", "GOV", "gov"}    -> "gov"
      [] s \in {"NGO", "ngo"}           -> "ngo"
      [] s \in {"Army", "army"}         -> "army"
      [] s \in {"Donor", "donor"}       -> "donor"
      [] s \in {"Press", "press"}       -> "press"
      [] s \in {"Court", "court"}       -> "court"
      [] s \in {"Union", "UNION", "union"} -> "union"
      [] s \in {"Ghost", "ghost"}       -> "ghost"
      [] s \in {"Nobody", "nobody"}     -> "nobody"

\* k in d
has_key(d, k) == k \in DOMAIN d

\* x in xs, for a list xs
in_list(x, xs) == \E i \in 1..Len(xs) : xs[i] = x

\* the least member of a non-empty set of indices
least(S) == CHOOSE i \in S : \A j \in S : i <= j

\* the loop of lines 1118-1121 stops at the first dict without "name"
\* (KeyError) or at the first dict whose name matches: the index it stops
\* at, 0 when it runs to the end
target_loop_stop(target_name, all_stakeholders) ==
    LET stops == {i \in 1..Len(all_stakeholders) :
                     \/ ~has_key(all_stakeholders[i], "name")
                     \/ lower(all_stakeholders[i].name) = lower(target_name)}
    IN  IF stops = {} THEN 0 ELSE least(stops)

\* influencer_indices with the influencers of the influencers added
influencer_indices_transitive(target, all_stakeholders) ==
    LET direct == {i \in 1..Len(all_stakeholders) :
                      in_list(target.name, all_stakeholders[i].influence_connections)}
    IN  direct \cup {i \in 1..Len(all_stakeholders) :
                        \E k \in direct :
                            in_list(all_stakeholders[k].name,
                                    all_stakeholders[i].influence_connections)}

\* influencer_indices with both sides of the comparison lowered
influencer_indices_ignoring_case(target, all_stakeholders) ==
    {i \in 1..Len(all_stakeholders) :
        \E j \in 1..Len(all_stakeholders[i].influence_connections) :
            lower(all_stakeholders[i].influence_connections[j]) = lower(target.name)}

\* "Find who influences the target": the indices of the influencers
influencer_indices(target, all_stakeholders) ==
    {i \in 1..Len(all_stakeholders) :
        in_list(target.name, all_stakeholders[i].influence_connections)}

\* the dicts at the indices S, in the order of the list
at_indices(xs, S) ==
    LET f[i \in 0..Len(xs)] ==
            IF i = 0 THEN << >>
            ELSE IF i \in S THEN Append(f[i - 1], xs[i]) ELSE f[i - 1]
    IN  f[Len(xs)]

\* [i for i in influencers if i['stance'] == label]
influencers_of_stance(direct, label) ==
    SelectSeq(direct, LAMBDA i : i.stance = label)

\* one pathway dict: its type and its influencers (the description, the
\* tactic and the actions are texts built from the same names)
pathway(pathway_type, direct) ==
    [pathway_type |-> pathway_type, influencers |-> names_of(direct)]

\* pathways after the three appends of lines 1141-1183
pathways_of(supportive, neutral, opposed) ==
    (IF supportive # << >> THEN <<pathway("Direct Advocacy", supportive)>> ELSE << >>)
      \o (IF neutral # << >> THEN <<pathway("Neutral Conversion", neutral)>> ELSE << >>)
      \o (IF opposed # << >> THEN <<pathway("Opposition Neutralization", opposed)>>
          ELSE << >>)

influence_pathways(direct) ==
    pathways_of(influencers_of_stance(direct, "Supportive"),
                influencers_of_stance(direct, "Neutral"),
                influencers_of_stance(direct, "Opposed"))

\* powerful_supporters with the threshold exclusive: power 0.7 left out
powerful_supporters_exclusive(all_stakeholders) ==
    SelectSeq(all_stakeholders, LAMBDA s : s.stance = "Supportive" /\ s.power > HIGH)

powerful_supporters(all_stakeholders) ==
    SelectSeq(all_stakeholders, LAMBDA s : s.stance = "Supportive" /\ s.power >= HIGH)

same_priority(target, all_stakeholders) ==
    SelectSeq(all_stakeholders,
              LAMBDA s : s.priority = target.priority /\ s.name # target.name)

\* opportunities after the two appends of lines 1226-1246
opportunities_of(powerful, peers) ==
    (IF powerful # << >>
     THEN <<[coalition_type |-> "Power Coalition", members |-> names_of(powerful)]>>
     ELSE << >>)
      \o (IF peers # << >>
          THEN <<[coalition_type |-> "Peer Coalition",
                  members |-> names_of(take(peers, TOP))]>>
          ELSE << >>)

identify_coalition_opportunities(target, all_stakeholders) ==
    opportunities_of(powerful_supporters(all_stakeholders),
                     same_priority(target, all_stakeholders))

\* _generate_overall_strategy: the sentence chosen by the target's stance
generate_overall_strategy(target) ==
    IF target.stance = "Opposed" THEN "Focus on building overwhelming coalition"
    ELSE IF target.stance = "Neutral" THEN "Convert to supportive stance"
    ELSE "Reinforce and strengthen supportive position"

\* _generate_risk_mitigation: the risks listed (0.8 and 0.3 in tenths)
generate_risk_mitigation(target, opposed_influencers) ==
    (IF opposed_influencers # << >> THEN <<"opposed direct">> ELSE << >>)
      \o (IF target.power >= 8 THEN <<"very high power">> ELSE << >>)
      \o (IF target.urgency <= 3 THEN <<"low urgency">> ELSE << >>)
      \o <<"may backfire">>

\* the dict of lines 1191-1207
tactics_of(target, all_stakeholders, direct) ==
    [ target_stakeholder |->
          [ name           |-> target.name,
            role           |-> target.role,
            current_stance |-> target.stance,
            priority       |-> target.priority,
            attributes     |-> [ power      |-> target.power,
                                 urgency    |-> target.urgency,
                                 legitimacy |-> target.legitimacy ] ],
      influence_pathways      |-> influence_pathways(direct),
      coalition_opportunities |-> identify_coalition_opportunities(target, all_stakeholders),
      overall_strategy        |-> generate_overall_strategy(target),
      risk_mitigation         |->
          generate_risk_mitigation(target, influencers_of_stance(direct, "Opposed")) ]

\* a subscript of lines 1126-1207 and of the helpers falls on a dict
\* without the key, the target being found
tactics_key_error(target, all_stakeholders) ==
    \/ \E i \in 1..Len(all_stakeholders) :
          LET s == all_stakeholders[i]
          IN  \/ ~has_key(s, "influence_connections")
              \/ ~has_key(s, "stance")
              \/ ~has_key(s, "priority")
              \/ (s.stance = "Supportive" /\ ~has_key(s, "power"))
              \/ ~has_key(s, "name")
    \/ \E k \in {"role", "priority", "power", "urgency", "legitimacy"} :
          ~has_key(target, k)

\* the rest of _generate_influence_tactics, the loop having stopped at stop
tactics_from(all_stakeholders, stop) ==
    IF stop = 0 THEN [returned |-> None]
    ELSE IF ~has_key(all_stakeholders[stop], "name") THEN [raised |-> "KeyError"]
    ELSE IF tactics_key_error(all_stakeholders[stop], all_stakeholders)
         THEN [raised |-> "KeyError"]
    ELSE [returned |->
             tactics_of(all_stakeholders[stop], all_stakeholders,
                        at_indices(all_stakeholders,
                                   influencer_indices(all_stakeholders[stop],
                                                      all_stakeholders)))]

\* what _generate_influence_tactics returns, or the exception it raises
generate_influence_tactics(target_name, analysis_data) ==
    IF ~has_key(analysis_data, "all_stakeholders") THEN [raised |-> "KeyError"]
    ELSE tactics_from(analysis_data.all_stakeholders,
                      target_loop_stop(target_name, analysis_data.all_stakeholders))

\* a string that is neither JSON nor Markdown: an error message
Plain(s) == [plain |-> s]

dumps_pathways(ps) ==
    JArr([i \in 1..Len(ps) |->
             JObj(<< <<"pathway_type", JStr(ps[i].pathway_type)>>,
                     <<"influencers", dumps_strings(ps[i].influencers)>> >>)])

dumps_opportunities(os) ==
    JArr([i \in 1..Len(os) |->
             JObj(<< <<"coalition_type", JStr(os[i].coalition_type)>>,
                     <<"members", dumps_strings(os[i].members)>> >>)])

\* json.dumps(tactics, indent=2, ensure_ascii=False).  A number of the
\* payload is written back as it was read.
dumps_tactics(t) ==
    JObj(<< <<"target_stakeholder",
              JObj(<< <<"name", JStr(t.target_stakeholder.name)>>,
                      <<"role", JStr(t.target_stakeholder.role)>>,
                      <<"current_stance", JStr(t.target_stakeholder.current_stance)>>,
                      <<"priority", JStr(t.target_stakeholder.priority)>>,
                      <<"attributes",
                        JObj(<< <<"power", JFloat(t.target_stakeholder.attributes.power)>>,
                                <<"urgency",
                                  JFloat(t.target_stakeholder.attributes.urgency)>>,
                                <<"legitimacy",
                                  JFloat(t.target_stakeholder.attributes.legitimacy)>> >>)>>
                   >>)>>,
            <<"influence_pathways", dumps_pathways(t.influence_pathways)>>,
            <<"coalition_opportunities", dumps_opportunities(t.coalition_opportunities)>>,
            <<"overall_strategy", JStr(t.overall_strategy)>>,
            <<"risk_mitigation", dumps_strings(t.risk_mitigation)>> >>)

\* _format_influence_tactics_markdown: the values its lines are filled with
format_influence_tactics_markdown(t) ==
    [md |->
        [ header   |-> <<t.target_stakeholder.name, t.target_stakeholder.role,
                         t.target_stakeholder.current_stance,
                         t.target_stakeholder.priority,
                         t.target_stakeholder.attributes.power,
                         t.target_stakeholder.attributes.urgency,
                         t.target_stakeholder.attributes.legitimacy>>,
          pathways |-> t.influence_pathways,
          coalition_opportunities |-> t.coalition_opportunities,
          overall_strategy |-> t.overall_strategy,
          risk_mitigation  |-> t.risk_mitigation ]]

\* lines 1094-1107, tactics being what _generate_influence_tactics gave
leverage_response(tactics, response_format) ==
    IF "raised" \in DOMAIN tactics THEN tactics
    ELSE IF tactics.returned = None
         THEN [tactics |-> None, returned |-> Plain("Error: Target stakeholder not found")]
    ELSE [tactics  |-> tactics.returned,
          returned |-> IF response_format = "json" THEN dumps_tactics(tactics.returned)
                       ELSE format_influence_tactics_markdown(tactics.returned)]

\* lines 1088-1092, loaded being what json.loads gave
leverage_loaded(target_stakeholder, loaded, response_format) ==
    IF "raised" \in DOMAIN loaded
    THEN [tactics |-> None, returned |-> Plain("Error: Invalid stakeholder_analysis_data JSON format")]
    ELSE leverage_response(generate_influence_tactics(target_stakeholder, loaded.returned),
                           response_format)

\* what leverage_stakeholder_influence returns: [returned |-> the string]
\* with the tactics it was made from, or [raised |-> the exception]
leverage_outcome(target_stakeholder, stakeholder_analysis_data, response_format) ==
    leverage_loaded(target_stakeholder, json_loads(stakeholder_analysis_data),
                    response_format)

\* one call of the tool humanitarian_leverage_stakeholder_influence
leverage_stakeholder_influence(target_stakeholder, stakeholder_analysis_data, response_format) ==
    /\ leverage_params' = [ target_stakeholder        |-> target_stakeholder,
                            stakeholder_analysis_data |-> stakeholder_analysis_data,
                            response_format           |-> response_format ]
    /\ leverage_result' = leverage_outcome(target_stakeholder, stakeholder_analysis_data,
                                           response_format)
    /\ UNCHANGED <<classify_vars, analyze_vars, http_vars, now, previous, task_vars>>


---------------------------------------------------------------------------
(* Classifier specification: one record from the whole grid of tenths, put *)
(* through one pass of each surface's loop.                                *)

GridRecords ==
    [ name : {"UN"}, power : UnitTenths, urgency : UnitTenths,
      legitimacy : UnitTenths, position : PositionTenths,
      influence_connections : {<< >>} ]

InitClassify ==
    /\ sh \in GridRecords
    /\ entry = None
    /\ http_entry = None
    /\ params = None
    /\ analysis = None
    /\ output = None
    /\ leverage_params = None
    /\ leverage_result = None
    /\ http_request = None
    /\ http_response = None
    /\ now = 0
    /\ previous = None
    /\ tasks = << >>
    /\ module_level = ModuleLevel

ClassifyStakeholder ==
    /\ entry = None
    /\ entry' = stakeholder_entry(sh)
    /\ UNCHANGED <<sh, http_entry, analyze_vars, leverage_vars, http_vars, now, previous, task_vars>>

ApiClassifyStakeholder ==
    /\ http_entry = None
    /\ http_entry' = http_stakeholder_entry(sh)
    /\ UNCHANGED <<sh, entry, analyze_vars, leverage_vars, http_vars, now, previous, task_vars>>

NextClassify == ClassifyStakeholder \/ ApiClassifyStakeholder

SpecClassify == InitClassify /\ [][NextClassify]_vars

---------------------------------------------------------------------------
(* Tool surface: analyze_stakeholders over whole batches                   *)

\* StakeholderAnalysisInput.stakeholders: min_items=2
MIN_ITEMS == 2

\* the longest batch drawn
MaxBatch == 3

Names == {"UN", "un", "Gov"}

HighProfile == [power |-> 9, urgency |-> 8, legitimacy |-> 7, position |-> 5]

LowProfile == [power |-> 7, urgency |-> 6, legitimacy |-> 2, position |-> 0]

\* a profile with a list of names, of batch members and of "Ghost", which
\* no record bears
Shapes ==
    { [profile |-> LowProfile,  influence_connections |-> << >>],
      [profile |-> HighProfile, influence_connections |-> <<"Ghost">>],
      [profile |-> HighProfile, influence_connections |-> <<"Gov", "UN">>],
      [profile |-> LowProfile,  influence_connections |-> <<"UN", "UN">>] }

Records ==
    { [ name |-> n, power |-> s.profile.power, urgency |-> s.profile.urgency,
        legitimacy |-> s.profile.legitimacy, position |-> s.profile.position,
        influence_connections |-> s.influence_connections ] :
      n \in Names, s \in Shapes }


Init ==
    /\ sh = None
    /\ entry = None
    /\ http_entry = None
    /\ params = None
    /\ analysis = None
    /\ output = None
    /\ leverage_params = None
    /\ leverage_result = None
    /\ http_request = None
    /\ http_response = None
    /\ now = 0
    /\ previous = None
    /\ tasks = << >>
    /\ module_level = ModuleLevel

\* the negotiation_context of the calls: one text of 10 characters or more
Context == "Access to the northern camps"

ResponseFormat == {"markdown", "json"}

\* one call of the tool humanitarian_analyze_stakeholders: the batch has
\* passed the validation of StakeholderAnalysisInput
\* format_response giving Markdown whatever the format asked for
format_response_markdown(a, context, response_format) ==
    format_stakeholder_markdown(a, context)

\* the formatting of the response (lines 746-750)
format_response(a, context, response_format) ==
    IF response_format = "json" THEN json_dumps(a)
    ELSE format_stakeholder_markdown(a, context)

\* the call's effect, a being the dict _analyze_stakeholder_landscape returned
analyze_stakeholders_returns(stakeholders, response_format, a) ==
    /\ params' = [ negotiation_context |-> Context,
                   stakeholders        |-> stakeholders,
                   response_format     |-> response_format ]
    /\ analysis' = a
    /\ output' = format_response(a, Context, response_format)
    /\ UNCHANGED <<classify_vars, leverage_vars, http_vars, now, previous, task_vars>>

analyze_stakeholders(stakeholders, response_format) ==
    analyze_stakeholders_returns(stakeholders, response_format,
                                 analyze_stakeholder_landscape(Context, stakeholders))

\* a caller with no call under way calls the tool with a batch of records
AnalyzeStakeholders(records) ==
    /\ params = None
    /\ \E n \in MIN_ITEMS..MaxBatch : \E b \in [1..n -> records] :
           analyze_stakeholders(b, "json")

\* the call returns: its parameters and its result are local to the call
Return ==
    /\ params # None
    /\ params' = None
    /\ analysis' = None
    /\ output' = None
    /\ leverage_params' = None
    /\ leverage_result' = None
    /\ UNCHANGED <<classify_vars, http_vars, now, previous, task_vars>>

Next == AnalyzeStakeholders(Records) \/ Return

Spec == Init /\ [][Next]_vars

---------------------------------------------------------------------------
(* The same tool over batches that vary the three ranked attributes        *)

Triples ==
    { [power |-> 9, urgency |-> 8, legitimacy |-> 7],
      [power |-> 7, urgency |-> 6, legitimacy |-> 10],
      [power |-> 7, urgency |-> 6, legitimacy |-> 2] }

\* a name, a position and a list of names to go with a triple
Bearers ==
    { [name |-> "UN",  position |-> -5, influence_connections |-> << >>],
      [name |-> "Gov", position |-> 4,  influence_connections |-> <<"UN">>],
      [name |-> "UN",  position |-> 4,  influence_connections |-> <<"UN">>],
      [name |-> "Gov", position |-> -5, influence_connections |-> << >>] }

GroupRecords ==
    { [ name |-> b.name, power |-> t.power, urgency |-> t.urgency,
        legitimacy |-> t.legitimacy, position |-> b.position,
        influence_connections |-> b.influence_connections ] :
      t \in Triples, b \in Bearers }

NextGroups == AnalyzeStakeholders(GroupRecords) \/ Return

SpecGroups == Init /\ [][NextGroups]_vars

---------------------------------------------------------------------------
(* The same tool over batches long enough for the [:5] slices: the i-th    *)
(* record bears the i-th name, and influences nobody, or the bearer of the *)
(* next name (the first, for the last record), or "Ghost" twice; the first *)
(* VaryProfile records take either profile, the others the second and not  *)
(* "Ghost"                                                                 *)

\* the longest such batch
MaxLong == 6

\* the number of leading records whose profile varies
VaryProfile == 3

Profiles == {HighProfile, LowProfile}

LongNames == <<"UN", "Gov", "NGO", "Army", "Donor", "Press", "Court", "Union">>

ConnectionKinds == {"nobody", "next", "ghost"}

LongRecord(i, n, p, k) ==
    [ name |-> LongNames[i], power |-> p.power, urgency |-> p.urgency,
      legitimacy |-> p.legitimacy, position |-> p.position,
      influence_connections |->
          IF k = "nobody" THEN << >>
          ELSE IF k = "next" THEN <<LongNames[(i % n) + 1]>>
          ELSE <<"Ghost", "Ghost">> ]

\* the batch of n records with the profiles p and the connections k
LongBatch(n, p, k) ==
    [i \in 1..n |-> LongRecord(i, n, IF i <= VaryProfile THEN p[i] ELSE LowProfile, k[i])]

\* the connections of a batch of n records: "Ghost" is for the leading records
LongConnections(n) ==
    {k \in [1..n -> ConnectionKinds] : \A i \in (VaryProfile + 1)..n : k[i] # "ghost"}

AnalyzeLongBatch ==
    /\ params = None
    /\ \E n \in MIN_ITEMS..MaxLong :
           \E p \in [1..VaryProfile -> Profiles], k \in LongConnections(n) :
               (\A i \in (n + 1)..VaryProfile : p[i] = LowProfile)
                   /\ analyze_stakeholders(LongBatch(n, p, k), "json")

NextRank == AnalyzeLongBatch \/ Return

SpecRank == Init /\ [][NextRank]_vars

---------------------------------------------------------------------------
(* The two tools in a row: a batch is analysed and the JSON the analysis   *)
(* returned is handed to the leverage tool with a target name.  The i-th   *)
(* record bears the i-th name (the second, at will, the first name again,  *)
(* in the same or in lower case); the first VaryLeverage records take any  *)
(* of five kinds, the others a fixed kind.                                 *)

\* the longest such batch
MaxLeverage == 7

\* the number of leading records whose kind varies
VaryLeverage == 2

LeverageKinds ==
    { [position |-> 5,  power |-> 7, urgency |-> 8, legitimacy |-> 8,
       influence_connections |-> <<"UN">>],
      [position |-> 5,  power |-> 6, urgency |-> 8, legitimacy |-> 8,
       influence_connections |-> <<"UN">>],
      [position |-> 4,  power |-> 7, urgency |-> 8, legitimacy |-> 8,
       influence_connections |-> <<"Gov">>],
      [position |-> -5, power |-> 9, urgency |-> 8, legitimacy |-> 2,
       influence_connections |-> <<"UN", "Gov">>],
      [position |-> 0,  power |-> 2, urgency |-> 2, legitimacy |-> 2,
       influence_connections |-> << >>] }

\* the kind of the i-th record when it is not one that varies
FixedKind(i) ==
    [ position |-> IF i = 3 THEN 0 ELSE IF i = 4 THEN -5 ELSE 5,
      power |-> 9, urgency |-> 8, legitimacy |-> 8,
      influence_connections |->
          IF i \in {3, 4} THEN <<"UN">> ELSE IF i = 5 THEN <<"NGO">> ELSE << >> ]

\* the name of the second record
SecondNames == {"Gov", "UN", "un"}

LeverageRecord(i, kind, second) ==
    [ name |-> IF i = 2 THEN second ELSE LongNames[i],
      power |-> kind.power, urgency |-> kind.urgency, legitimacy |-> kind.legitimacy,
      position |-> kind.position, influence_connections |-> kind.influence_connections ]

LeverageBatch(n, kinds, second) ==
    [i \in 1..n |->
        LeverageRecord(i, IF i <= VaryLeverage THEN kinds[i] ELSE FixedKind(i), second)]

\* the target names asked for
TargetNames == {"UN", "un", "GOV", "Union", "Nobody"}

AnalyzeLeverageBatch ==
    /\ params = None
    /\ \E n \in MIN_ITEMS..MaxLeverage :
           \E kinds \in [1..VaryLeverage -> LeverageKinds], second \in SecondNames :
               (\A i \in (n + 1)..VaryLeverage : kinds[i] = kinds[1])
                   /\ analyze_stakeholders(LeverageBatch(n, kinds, second), "json")

\* the caller hands the string the analysis returned to the leverage tool
LeverageStakeholderInfluence ==
    /\ output # None
    /\ leverage_params = None
    /\ \E t \in TargetNames, f \in ResponseFormat :
           leverage_stakeholder_influence(t, output, f)

NextLeverage == AnalyzeLeverageBatch \/ LeverageStakeholderInfluence \/ Return

SpecLeverage == Init /\ [][NextLeverage]_vars

---------------------------------------------------------------------------
(* Blob specification: the leverage tool is handed strings that are not    *)
(* the analysis as the first tool wrote it: its Markdown rendering, and    *)
(* its JSON with a member taken out.                                       *)

\* the longest batch behind a blob
MaxBlob == 2

BlobRecords ==
    { [ name |-> n, power |-> s.profile.power, urgency |-> s.profile.urgency,
        legitimacy |-> s.profile.legitimacy, position |-> s.profile.position,
        influence_connections |-> s.influence_connections ] :
      n \in {"UN", "Gov"},
      s \in { [profile |-> LowProfile,  influence_connections |-> << >>],
              [profile |-> HighProfile, influence_connections |-> <<"Gov", "UN">>] } }

\* the text of a JSON object with its member k taken out
without_member(t, k) == JObj(SelectSeq(t.obj, LAMBDA m : m[1] # k))

\* the text of an analysis with the key k of the i-th entry of
\* all_stakeholders taken out
without_entry_key(t, i, k) ==
    JObj([m \in 1..Len(t.obj) |->
             IF t.obj[m][1] = "all_stakeholders"
             THEN <<"all_stakeholders",
                    JArr([j \in 1..Len(t.obj[m][2].arr) |->
                             IF j = i THEN without_member(t.obj[m][2].arr[j], k)
                             ELSE t.obj[m][2].arr[j]])>>
             ELSE t.obj[m]])

\* the keys of an entry that _generate_influence_tactics subscripts
EntryKeys == {"name", "influence_connections", "stance"}

\* the strings handed over for the analysis a, of n records, whose JSON
\* text is text
Blobs(a, text, n) ==
    {text, format_stakeholder_markdown(a, Context), without_member(text, "all_stakeholders")}
        \cup {without_entry_key(text, i, k) : i \in 1..n, k \in EntryKeys}

BlobTargets == {"un", "Nobody"}

AnalyzeBlobBatch ==
    /\ params = None
    /\ \E n \in MIN_ITEMS..MaxBlob : \E b \in [1..n -> BlobRecords] :
           analyze_stakeholders(b, "json")

LeverageBlob ==
    /\ output # None
    /\ leverage_params = None
    /\ \E blob \in Blobs(analysis, output, Len(analysis.all_stakeholders)) :
           \E t \in BlobTargets, f \in ResponseFormat :
               leverage_stakeholder_influence(t, blob, f)

NextBlob == AnalyzeBlobBatch \/ LeverageBlob \/ Return

SpecBlob == Init /\ [][NextBlob]_vars

---------------------------------------------------------------------------
(* HTTP surface: the five /api/v1 handlers.  The body of a handler gives   *)
(* [returned |-> the APIResponse] or [raised |-> str(e)].  A string made   *)
(* by formatting is the tuple of its pieces.  The payload                  *)
(* stakeholders_analysis_json is a JSON value with the type of every node  *)
(* kept, written as the JSON texts above; null is [null |-> TRUE].         *)

JNull == [null |-> TRUE]

\* APIResponse(success=..., data=..., error=..., message=...)
APIResponse(success, data, error, message) ==
    [success |-> success, data |-> data, error |-> error, message |-> message]

\* a handler without its except clause: the exception leaves the handler
except_nothing(outcome, message) ==
    IF "raised" \in DOMAIN outcome THEN outcome ELSE outcome.returned

\* try: body / except Exception as e: return APIResponse(success=False,
\* error=str(e), message=message)
except_exception(outcome, message) ==
    IF "raised" \in DOMAIN outcome
    THEN APIResponse(FALSE, None, Plain(outcome.raised), message)
    ELSE outcome.returned

\* api_island_of_agreement: the result echoes the two names
api_island_of_agreement(request) ==
    except_exception(
        [returned |->
            APIResponse(TRUE,
                        [ methodology  |-> "Island of Agreement",
                          organization |-> request.organization_name,
                          counterpart  |-> request.counterpart_name,
                          agreed_facts |-> <<"Humanitarian crisis exists",
                                             <<request.organization_name,
                                               " has capacity to help">>,
                                             "Both parties seek stability">> ],
                        None,
                        "Island of Agreement analysis completed successfully")],
        "Analysis failed")

\* request.field or []: an optional field left out of the request is None
or_empty(request, field) == IF field \in DOMAIN request THEN request[field] ELSE << >>

\* union of the two sets in place of their intersection
common_union(xs, ys) ==
    {xs[i] : i \in 1..Len(xs)} \cup {ys[i] : i \in 1..Len(ys)}

\* set(xs) & set(ys)
common(xs, ys) ==
    {xs[i] : i \in 1..Len(xs)} \cap {ys[i] : i \in 1..Len(ys)}

\* api_analyze_icebergs: list(set & set) per level (a list in an order the
\* hash of the strings decides, kept as the set), the fixed list when empty
api_analyze_icebergs(request) ==
    except_exception(
        [returned |->
            APIResponse(TRUE,
                [ analysis_type |-> "Iceberg & Common Shared Space",
                  organization  |-> request.organization_name,
                  counterpart   |-> request.counterpart_name,
                  surface_level |->
                      [ organization_positions |-> request.organization_positions,
                        counterpart_positions  |-> request.counterpart_positions,
                        common_ground |->
                            LET c == common(request.organization_positions,
                                            request.counterpart_positions)
                            IN  IF c # {} THEN c
                                ELSE {"Seek to resolve the conflict",
                                      "Both parties desire stability"} ],
                  reasoning_level |->
                      [ organization_reasoning |-> request.organization_reasoning,
                        counterpart_reasoning  |-> or_empty(request, "counterpart_reasoning"),
                        aligned_reasoning |->
                            LET c == common(request.organization_reasoning,
                                            or_empty(request, "counterpart_reasoning"))
                            IN  IF c # {} THEN c
                                ELSE {"Need for productive dialogue",
                                      "Importance of mutual benefit"} ],
                  motives_level |->
                      [ organization_motives |-> request.organization_motives,
                        counterpart_motives  |-> or_empty(request, "counterpart_motives"),
                        shared_values |->
                            LET c == common(request.organization_motives,
                                            or_empty(request, "counterpart_motives"))
                            IN  IF c # {} THEN c
                                ELSE {"Long-term cooperation", "Sustainable peace"} ],
                  common_shared_space |->
                      [ identified |->
                            \/ common(request.organization_positions,
                                      request.counterpart_positions) # {}
                            \/ common(request.organization_reasoning,
                                      or_empty(request, "counterpart_reasoning")) # {}
                            \/ common(request.organization_motives,
                                      or_empty(request, "counterpart_motives")) # {},
                        negotiation_opportunities |->
                            <<"Build agreements on shared positions",
                              "Leverage aligned reasoning",
                              "Find compromise through shared values",
                              "Focus on mutual benefits">> ] ],
                None,
                "Iceberg analysis completed successfully")],
        "Iceberg analysis failed")

\* priority_order = {"First": 1, "Second": 2, "Third": 3}
priority_order(level) ==
    CASE level = "First" -> 1 [] level = "Second" -> 2 [] level = "Third" -> 3

\* stakeholder_priorities.sort(key=lambda x: (priority_order[...],
\* -x["salience_score"])): ascending and stable, which is descending and
\* stable on the negated key
http_sorted(entries) ==
    sorted_reverse(entries,
                   [i \in 1..Len(entries) |->
                       <<0 - priority_order(entries[i].priority_level),
                         entries[i].salience_score>>])

\* [s["name"] for s in stakeholder_priorities if s["priority_level"] == level]
names_of_level(entries, level) ==
    names_of(SelectSeq(entries, LAMBDA s : s.priority_level = level))

\* the result dict of api_analyze_stakeholders, entries being the sorted list
http_result(context, stakeholders, entries) ==
    [ analysis_context   |-> context,
      total_stakeholders |-> Len(stakeholders),
      stakeholders       |-> entries,
      priority_summary   |-> [ first_priority  |-> names_of_level(entries, "First"),
                               second_priority |-> names_of_level(entries, "Second"),
                               third_priority  |-> names_of_level(entries, "Third") ] ]

\* lines 439-470, stakeholder_priorities being the list the loop has built
api_analyze_stakeholders_returns(request, stakeholder_priorities) ==
    except_exception(
        [returned |->
            APIResponse(TRUE,
                        http_result(request.context, request.stakeholders,
                                    http_sorted(stakeholder_priorities)),
                        None,
                        "Stakeholder analysis completed successfully")],
        "Stakeholder analysis failed")

api_analyze_stakeholders(request) ==
    api_analyze_stakeholders_returns(
        request,
        [i \in 1..Len(request.stakeholders) |->
            http_stakeholder_entry(request.stakeholders[i])])

\* api_guide: a fixed document
api_guide(format) ==
    except_exception(
        [returned |->
            APIResponse(TRUE,
                        [ title   |-> "Humanitarian Negotiation Methodologies Guide",
                          version |-> "1.0.0" ],
                        None,
                        "Guide retrieved successfully")],
        "Failed to retrieve guide")

\* type(v).__name__
type_name(v) ==
    CASE "obj" \in DOMAIN v   -> "dict"
      [] "arr" \in DOMAIN v   -> "list"
      [] "str" \in DOMAIN v   -> "str"
      [] "int" \in DOMAIN v   -> "int"
      [] "float" \in DOMAIN v -> "float"
      [] "null" \in DOMAIN v  -> "NoneType"

is_dict(v) == "obj" \in DOMAIN v

is_number(v) == "int" \in DOMAIN v \/ "float" \in DOMAIN v

\* a number of the payload, in tenths
number_tenths(v) ==
    IF "int" \in DOMAIN v THEN 10 * v.int
    ELSE v.float[1] * (10 * v.float[2] + v.float[3])

\* k in d, for a dict d of the payload
obj_has(d, k) == \E i \in 1..Len(d.obj) : d.obj[i][1] = k

\* d.get(k, default): a key written twice has its last value
obj_get(d, k, default) ==
    IF obj_has(d, k)
    THEN d.obj[CHOOSE i \in 1..Len(d.obj) :
                   d.obj[i][1] = k /\ \A j \in (i + 1)..Len(d.obj) : d.obj[j][1] # k][2]
    ELSE default

\* str(e) of the AttributeError of v.get on a value that is not a dict
no_attribute_get(v) == <<"'", type_name(v), "' object has no attribute 'get'">>

\* str(e) of the TypeError of iterating a value that is not iterable
not_iterable(v) == <<"'", type_name(v), "' object is not iterable">>

\* str(e) of the TypeError of v > 0.5 on a value that is not a number
not_supported_gt(v) ==
    <<"'>' not supported between instances of '", type_name(v), "' and 'float'">>

\* s.get("position", 0)
position_of(s) == obj_get(s, "position", JInt(0))

\* the loop of lines 484-488 stops at the first item that is not a dict
\* (AttributeError) or whose name is the target's: the index it stops at,
\* 0 when it runs to the end
http_target_loop_stop(items, name) ==
    LET stops == {i \in 1..Len(items) :
                     \/ ~is_dict(items[i])
                     \/ obj_get(items[i], "name", JNull) = JStr(name)}
    IN  IF stops = {} THEN 0 ELSE least(stops)

\* the comprehension of line 497 stops at the first item that is not a
\* dict or whose position is not a number: its index, 0 when it runs to
\* the end (the comprehension of line 498 then runs to the end as well)
allies_stop(items) ==
    LET stops == {i \in 1..Len(items) :
                     \/ ~is_dict(items[i])
                     \/ ~is_number(position_of(items[i]))}
    IN  IF stops = {} THEN 0 ELSE least(stops)

\* the allies of line 497, on items that are all dicts with a number for
\* position
http_allies(items, name) ==
    SelectSeq(items, LAMBDA s : /\ number_tenths(position_of(s)) > HALF
                                /\ obj_get(s, "name", JNull) # JStr(name))

\* a["name"] for a in allies[:3]
allies_names(found_allies) ==
    [i \in 1..Len(take(found_allies, 3)) |-> obj_get(found_allies[i], "name", JNull)]

\* the result dict of api_leverage_influence (lines 501-545)
leverage_result_of(name, target, found_allies) ==
    [ target_stakeholder |-> name,
      target_profile |->
          [ power          |-> obj_get(target, "power", JInt(0)),
            urgency        |-> obj_get(target, "urgency", JInt(0)),
            legitimacy     |-> obj_get(target, "legitimacy", JInt(0)),
            position       |-> position_of(target),
            priority_level |-> obj_get(target, "priority_level", JStr("Unknown")) ],
      primary_approach |->
          IF number_tenths(position_of(target)) >= 0 THEN "Coalition building"
          ELSE "Negotiation and negotiation",
      communication_tone |->
          IF number_tenths(position_of(target)) > 0 THEN "Collaborative"
          ELSE "Professional and neutral",
      allies |-> allies_names(found_allies),
      effectiveness |-> IF found_allies # << >> THEN "High" ELSE "Moderate",
      influenced_by |-> obj_get(target, "influenced_by", JArr(<< >>)),
      key_recommendations |->
          << <<"Prioritize engagement with ", name, " given their ",
               obj_get(target, "priority_level", JNull), " priority level">>,
             <<"Leverage ", Len(found_allies), " identified allies for coalition building">> >> ]

\* lines 501-551, the allies being found
leverage_with_allies(name, target, found_allies) ==
    IF \E i \in 1..Len(take(found_allies, 3)) : ~obj_has(found_allies[i], "name")
    THEN [raised |-> <<"'name'">>]
    ELSE [returned |->
             APIResponse(TRUE,
                         leverage_result_of(name, target, found_allies),
                         None,
                         "Influence tactics developed successfully")]

\* lines 496-551, the target being found and the comprehension of line 497
\* having stopped at stop
leverage_with_target(name, items, target, stop) ==
    IF stop = 0 THEN leverage_with_allies(name, target, http_allies(items, name))
    ELSE IF ~is_dict(items[stop]) THEN [raised |-> no_attribute_get(items[stop])]
    ELSE [raised |-> not_supported_gt(position_of(items[stop]))]

\* lines 484-551, the loop having stopped at stop
leverage_over(name, items, stop) ==
    IF stop = 0
    THEN [returned |->
             APIResponse(FALSE, None,
                         Plain(<<"Stakeholder '", name, "' not found in analysis">>),
                         "Stakeholder not found")]
    ELSE IF ~is_dict(items[stop]) THEN [raised |-> no_attribute_get(items[stop])]
    ELSE leverage_with_target(name, items, items[stop], allies_stop(items))

\* the body of api_leverage_influence, stakeholders being
\* stakeholders_analysis_json.get("stakeholders", []): a list, or a value
\* that cannot be iterated (null, a number)
leverage_body(name, stakeholders) ==
    IF "arr" \notin DOMAIN stakeholders THEN [raised |-> not_iterable(stakeholders)]
    ELSE leverage_over(name, stakeholders.arr,
                       http_target_loop_stop(stakeholders.arr, name))

api_leverage_influence(request) ==
    except_exception(
        leverage_body(request.target_stakeholder_name,
                      obj_get(request.stakeholders_analysis_json, "stakeholders",
                              JArr(<< >>))),
        "Failed to develop tactics")

---------------------------------------------------------------------------
(* HTTP specification: requests that have passed the validation of their   *)
(* request model, one handler call at a time.                              *)

\* the longest "stakeholders" list of a leverage payload
MaxPayload == 2

OrganizationNames == {"ICRC", "MSF"}

CounterpartNames == {"Ministry", "Militia"}

IslandRequests ==
    [ organization_name : OrganizationNames, counterpart_name : CounterpartNames ]

\* the request without the optional fields
IcebergRequest(organization_positions, counterpart_positions) ==
    [ organization_name      |-> "ICRC",
      counterpart_name       |-> "Ministry",
      organization_positions |-> organization_positions,
      counterpart_positions  |-> counterpart_positions,
      organization_reasoning |-> <<"neutrality">>,
      organization_motives   |-> <<"humanity">> ]

\* the request r with the optional list xs given for field, when xs is not empty
with_optional(r, field, xs) ==
    IF xs = << >> THEN r
    ELSE [k \in DOMAIN r \cup {field} |-> IF k = field THEN xs ELSE r[k]]

IcebergRequests ==
    { with_optional(with_optional(IcebergRequest(op, cp), "counterpart_reasoning", cr),
                    "counterpart_motives", cm) :
          op \in {<<"access">>, <<"access", "escorts">>, <<"escorts", "access", "access">>},
          cp \in {<<"access">>, <<"control">>, <<"control", "escorts">>},
          cr \in {<< >>, <<"neutrality">>, <<"security">>},
          cm \in {<< >>, <<"humanity">>} }

\* a context of 50 characters or more
HttpContext == "Access to the northern camps before the rainy season"

\* the entries of a payload: one as api_analyze_stakeholders writes it, and
\* others with members missing or of another type
GoodEntry(name, position) ==
    JObj(<< <<"name", JStr(name)>>, <<"power", JFloat(9)>>, <<"urgency", JFloat(8)>>,
            <<"legitimacy", JFloat(7)>>, <<"position", JFloat(position)>>,
            <<"salience_score", JFloat(24)>>, <<"priority_level", JStr("First")>>,
            <<"influenced_by", JArr(<<JStr("Gov")>>)>>,
            <<"engagement_strategy", JStr(engagement_strategy([position |-> position]))>> >>)

PayloadEntries ==
    { GoodEntry("UN", 0), GoodEntry("Gov", 9), GoodEntry("Gov", -9),
      JObj(<< <<"name", JStr("Gov")>> >>),
      JObj(<< <<"position", JFloat(9)>> >>),
      JObj(<< <<"name", JStr("Gov")>>, <<"position", JStr("high")>> >>),
      JObj(<< <<"name", JStr("UN")>>, <<"position", JNull>> >>),
      JStr("Gov") }

Payloads ==
    { JObj(<< <<"stakeholders", JArr(items)>> >>) :
          items \in UNION {[1..n -> PayloadEntries] : n \in 0..MaxPayload} }
      \cup { JObj(<< <<"stakeholders", JNull>> >>),
             JObj(<< <<"stakeholders", JInt(3)>> >>),
             JObj(<< <<"all_stakeholders", JArr(<<GoodEntry("UN", 0)>>)>> >>),
             JObj(<< >>) }

\* a handler is called with request; it returns response
http_returns(handler, request, response) ==
    /\ http_request' = [handler |-> handler, request |-> request]
    /\ http_response' = response
    /\ UNCHANGED <<classify_vars, analyze_vars, leverage_vars, now, previous, task_vars>>

ApiIslandOfAgreement ==
    /\ http_request = None
    /\ \E r \in IslandRequests :
           http_returns("api_island_of_agreement", r, api_island_of_agreement(r))

ApiAnalyzeIcebergs ==
    /\ http_request = None
    /\ \E r \in IcebergRequests :
           http_returns("api_analyze_icebergs", r, api_analyze_icebergs(r))

ApiAnalyzeStakeholders ==
    /\ http_request = None
    /\ \E b \in [1..MIN_ITEMS -> Records], f \in ResponseFormat :
           LET r == [context |-> HttpContext, stakeholders |-> b, response_format |-> f]
           IN  http_returns("api_analyze_stakeholders", r, api_analyze_stakeholders(r))

ApiLeverageInfluence ==
    /\ http_request = None
    /\ \E t \in {"UN", "Gov", "un"}, p \in Payloads :
           LET r == [target_stakeholder_name |-> t, stakeholders_analysis_json |-> p]
           IN  http_returns("api_leverage_influence", r, api_leverage_influence(r))

ApiGuide ==
    /\ http_request = None
    /\ \E f \in {"markdown", "text"} :
           http_returns("api_guide", [format |-> f], api_guide(f))

\* the response is sent: the request and the response are local to the call
HttpReturn ==
    /\ http_request # None
    /\ http_request' = None
    /\ http_response' = None
    /\ UNCHANGED <<classify_vars, analyze_vars, leverage_vars, now, previous, task_vars>>

NextHttp ==
    \/ ApiIslandOfAgreement
    \/ ApiAnalyzeIcebergs
    \/ ApiAnalyzeStakeholders
    \/ ApiLeverageInfluence
    \/ ApiGuide
    \/ HttpReturn

SpecHttp == Init /\ [][NextHttp]_vars

---------------------------------------------------------------------------
(* Size specification: batches around the two limits of the "stakeholders" *)
(* field, handed to both surfaces.  The arguments of a call are validated  *)
(* into the request model before the function is called.                   *)

HTTP_MIN_ITEMS == 2

HTTP_MAX_ITEMS == 50

\* how far below and above the limits the lengths of the batches go
SizeSlack == 1

\* valid_stakeholders with both limits exclusive
valid_stakeholders_exclusive(stakeholders) ==
    Len(stakeholders) > MIN_ITEMS /\ Len(stakeholders) < MAX_STAKEHOLDERS

\* StakeholderAnalysisInput.stakeholders: min_items=2, max_items=MAX_STAKEHOLDERS
valid_stakeholders(stakeholders) ==
    Len(stakeholders) >= MIN_ITEMS /\ Len(stakeholders) <= MAX_STAKEHOLDERS

\* StakeholderAnalysisRequest.stakeholders: min_items=2, max_items=50
http_valid_stakeholders(stakeholders) ==
    Len(stakeholders) >= HTTP_MIN_ITEMS /\ Len(stakeholders) <= HTTP_MAX_ITEMS

\* the request model could not be built: the function is not called
ValidationError == [rejected |-> "ValidationError"]

\* the tool humanitarian_analyze_stakeholders is called with arguments
call_analyze_stakeholders(stakeholders, response_format) ==
    IF valid_stakeholders(stakeholders)
    THEN analyze_stakeholders(stakeholders, response_format)
    ELSE /\ params' = [ negotiation_context |-> Context,
                        stakeholders        |-> stakeholders,
                        response_format     |-> response_format ]
         /\ analysis' = None
         /\ output' = ValidationError
         /\ UNCHANGED <<classify_vars, leverage_vars, http_vars, now, previous, task_vars>>

\* POST /api/v1/analyze-stakeholders with a body
post_analyze_stakeholders(request) ==
    http_returns("api_analyze_stakeholders", request,
                 IF http_valid_stakeholders(request.stakeholders)
                 THEN api_analyze_stakeholders(request)
                 ELSE ValidationError)

Sizes ==
    (0..(MIN_ITEMS + SizeSlack))
        \cup ((MAX_STAKEHOLDERS - SizeSlack)..(MAX_STAKEHOLDERS + SizeSlack))

\* a batch of n records with names of two characters, the first of the
\* shape first, the others of the profile rest
SizedBatch(n, first, rest) ==
    [i \in 1..n |->
        [ name |-> ToString(9 + i),
          power      |-> IF i = 1 THEN first.profile.power ELSE rest.power,
          urgency    |-> IF i = 1 THEN first.profile.urgency ELSE rest.urgency,
          legitimacy |-> IF i = 1 THEN first.profile.legitimacy ELSE rest.legitimacy,
          position   |-> IF i = 1 THEN first.profile.position ELSE rest.position,
          influence_connections |->
              IF i = 1 THEN first.influence_connections ELSE <<ToString(10)>> ]]

CallAnalyzeStakeholders ==
    /\ params = None
    /\ http_request = None
    /\ \E n \in Sizes, first \in Shapes, rest \in Profiles, f \in ResponseFormat :
           call_analyze_stakeholders(SizedBatch(n, first, rest), f)

PostAnalyzeStakeholders ==
    /\ params = None
    /\ http_request = None
    /\ \E n \in Sizes, first \in Shapes, rest \in Profiles, f \in ResponseFormat :
           post_analyze_stakeholders([ context         |-> HttpContext,
                                       stakeholders    |-> SizedBatch(n, first, rest),
                                       response_format |-> f ])

NextSize == CallAnalyzeStakeholders \/ PostAnalyzeStakeholders \/ Return \/ HttpReturn

SpecSize == Init /\ [][NextSize]_vars

---------------------------------------------------------------------------
(* Clock specification: the tool is called again and again while the clock *)
(* datetime.utcnow() reads moves on; the parameters and the output of the  *)
(* call before are kept beside those of the call under way.                *)

\* the last reading of the clock
MaxNow == 2

\* time passes
Tick ==
    /\ now < MaxNow
    /\ now' = now + 1
    /\ UNCHANGED <<classify_vars, analyze_vars, leverage_vars, http_vars, previous, task_vars>>

CallAtNow ==
    /\ params = None
    /\ \E b \in [1..MIN_ITEMS -> BlobRecords], f \in ResponseFormat :
           analyze_stakeholders(b, f)

\* the call returns and is remembered as the call before
ReturnRemembered ==
    /\ params # None
    /\ previous' = [params |-> params, output |-> output, at |-> analysis.metadata.analysis_date]
    /\ params' = None
    /\ analysis' = None
    /\ output' = None
    /\ UNCHANGED <<classify_vars, leverage_vars, http_vars, now, task_vars>>

NextClock == Tick \/ CallAtNow \/ ReturnRemembered

SpecClock == Init /\ [][NextClock]_vars

---------------------------------------------------------------------------
(* Task specification: several calls are under way side by side, on both   *)
(* surfaces.  A call is a task: the request it was sent, the request       *)
(* object its handler holds, the list its loop appends to                  *)
(* (stakeholder_analysis, stakeholder_priorities), the number of passes    *)
(* done, and its response.  The passes of the calls interleave freely,     *)
(* which is more than the event loop allows a handler without await.       *)

\* the number of calls under way at once
MaxTasks == 2

TaskRecords ==
    { [ name |-> "UN", power |-> LowProfile.power, urgency |-> LowProfile.urgency,
        legitimacy |-> LowProfile.legitimacy, position |-> LowProfile.position,
        influence_connections |-> <<"Gov">> ],
      [ name |-> "Gov", power |-> HighProfile.power, urgency |-> HighProfile.urgency,
        legitimacy |-> HighProfile.legitimacy, position |-> HighProfile.position,
        influence_connections |-> << >> ] }

TaskBatches == [1..MIN_ITEMS -> TaskRecords]

\* the requests sent: analyses on both surfaces, and a leverage request
\* whose payload makes the handler fail
TaskRequests ==
    { [ handler |-> "analyze_stakeholders",
        request |-> [ negotiation_context |-> Context, stakeholders |-> b,
                      response_format |-> "json" ] ] : b \in TaskBatches }
      \cup { [ handler |-> "api_analyze_stakeholders",
               request |-> [ context |-> HttpContext, stakeholders |-> b,
                             response_format |-> "json" ] ] : b \in TaskBatches }
      \cup { [ handler |-> "api_leverage_influence",
               request |-> [ target_stakeholder_name    |-> "UN",
                             stakeholders_analysis_json |->
                                 JObj(<< <<"stakeholders", JNull>> >>) ] ] }

\* the list of the first call of the same handler: one list for all calls
first_list(ts, t) ==
    ts[least({u \in 1..Len(ts) : ts[u].handler = ts[t].handler})].list

\* stakeholder_analysis = [] and stakeholder_priorities = [] are locals:
\* the list of the call t
local_list(ts, t) == ts[t].list

\* a request arrives and its handler is called
Receive ==
    /\ Len(tasks) < MaxTasks
    /\ \E r \in TaskRequests :
           tasks' = Append(tasks, [ handler |-> r.handler, sent |-> r.request,
                                    request |-> r.request, list |-> << >>,
                                    passes |-> 0, response |-> None ])
    /\ UNCHANGED <<classify_vars, analyze_vars, leverage_vars, http_vars, now, previous,
                   module_level>>

\* the tasks after one more pass of the loop of the call t, which appends
\* the dict appended
after_pass(ts, t, appended) ==
    [ts EXCEPT ![t].list = Append(local_list(ts, t), appended),
               ![t].passes = ts[t].passes + 1]

\* one pass of the loop of _analyze_stakeholder_landscape in the call t
ToolPass(t) ==
    /\ tasks[t].handler = "analyze_stakeholders"
    /\ tasks[t].response = None
    /\ tasks[t].passes < Len(tasks[t].request.stakeholders)
    /\ tasks' = after_pass(tasks, t,
                    stakeholder_entry(tasks[t].request.stakeholders[tasks[t].passes + 1]))
    /\ UNCHANGED <<classify_vars, analyze_vars, leverage_vars, http_vars, now, previous,
                   module_level>>

\* the loop of the call t is over: the sort, the rest of the analysis and
\* the formatting
ToolFinish(t) ==
    /\ tasks[t].handler = "analyze_stakeholders"
    /\ tasks[t].response = None
    /\ tasks[t].passes = Len(tasks[t].request.stakeholders)
    /\ tasks' = [tasks EXCEPT ![t].response =
                    format_response(
                        landscape(tasks[t].request.negotiation_context,
                                  tasks[t].request.stakeholders,
                                  sort_by_score_then_power(tasks[t].list)),
                        tasks[t].request.negotiation_context,
                        tasks[t].request.response_format)]
    /\ UNCHANGED <<classify_vars, analyze_vars, leverage_vars, http_vars, now, previous,
                   module_level>>

\* one pass of the loop of api_analyze_stakeholders in the call t
HttpPass(t) ==
    /\ tasks[t].handler = "api_analyze_stakeholders"
    /\ tasks[t].response = None
    /\ tasks[t].passes < Len(tasks[t].request.stakeholders)
    /\ tasks' = after_pass(tasks, t,
                    http_stakeholder_entry(
                        tasks[t].request.stakeholders[tasks[t].passes + 1]))
    /\ UNCHANGED <<classify_vars, analyze_vars, leverage_vars, http_vars, now, previous,
                   module_level>>

HttpFinish(t) ==
    /\ tasks[t].handler = "api_analyze_stakeholders"
    /\ tasks[t].response = None
    /\ tasks[t].passes = Len(tasks[t].request.stakeholders)
    /\ tasks' = [tasks EXCEPT ![t].response =
                    api_analyze_stakeholders_returns(tasks[t].request, tasks[t].list)]
    /\ UNCHANGED <<classify_vars, analyze_vars, leverage_vars, http_vars, now, previous,
                   module_level>>

\* api_leverage_influence runs in the call t
HttpLeverage(t) ==
    /\ tasks[t].handler = "api_leverage_influence"
    /\ tasks[t].response = None
    /\ tasks' = [tasks EXCEPT ![t].response = api_leverage_influence(tasks[t].request)]
    /\ UNCHANGED <<classify_vars, analyze_vars, leverage_vars, http_vars, now, previous,
                   module_level>>

\* the response of the call t is sent and its locals are gone
Respond(t) ==
    /\ tasks[t].response # None
    /\ tasks' = [i \in 1..(Len(tasks) - 1) |-> IF i < t THEN tasks[i] ELSE tasks[i + 1]]
    /\ UNCHANGED <<classify_vars, analyze_vars, leverage_vars, http_vars, now, previous,
                   module_level>>

NextTasks ==
    \/ Receive
    \/ \E t \in 1..Len(tasks) : ToolPass(t)
    \/ \E t \in 1..Len(tasks) : ToolFinish(t)
    \/ \E t \in 1..Len(tasks) : HttpPass(t)
    \/ \E t \in 1..Len(tasks) : HttpFinish(t)
    \/ \E t \in 1..Len(tasks) : HttpLeverage(t)
    \/ \E t \in 1..Len(tasks) : Respond(t)

SpecTasks == Init /\ [][NextTasks]_vars

---------------------------------------------------------------------------
(* Tool surface: humanitarian_analyze_icebergs.  The call's parameters have *)
(* passed the validation of IcebergAnalysisInput; an optional list left    *)
(* out is None.  The fixed texts of compromise_opportunities are kept by   *)
(* their "opportunity" and "shared_value" members.                         *)

\* _identify_common_space: the dict does not read the six lists
identify_common_space(org_pos, org_reas, org_mot, cp_pos, cp_reas, cp_mot) ==
    [ shared_values |->
          <<"Both parties recognize the severity of the humanitarian situation",
            "Both seek to avoid international criticism and reputational damage",
            "Both want efficient use of available resources",
            "Both prefer orderly, predictable operational frameworks">>,
      complementary_reasoning |->
          <<"Coordination can satisfy both access needs and control requirements",
            "Clear protocols can provide both flexibility and oversight",
            "Joint planning can address both humanitarian and security concerns",
            "Phased approaches can build trust while maintaining progress">>,
      potential_aligned_positions |->
          <<"Establish joint coordination mechanism with defined parameters",
            "Create tiered access system based on zone security assessments",
            "Develop shared reporting framework for transparency",
            "Implement pilot program in less contested areas first">> ]

\* _generate_compromise_opportunities: the list does not read common_space
generate_compromise_opportunities(common_space) ==
    << [ opportunity  |-> "Joint Coordination Mechanism",
         shared_value |-> "Orderly, predictable framework for all parties" ],
       [ opportunity  |-> "Phased Access Expansion",
         shared_value |-> "Gradual approach that builds confidence incrementally" ],
       [ opportunity  |-> "Enhanced Transparency Protocol",
         shared_value |-> "Transparency builds trust and demonstrates responsibility" ] >>

\* xs if xs else ["[To be explored through dialogue]"]
or_to_be_explored(xs) ==
    IF xs # << >> THEN xs ELSE <<"[To be explored through dialogue]">>

\* _analyze_iceberg_structure
analyze_iceberg_structure(org_name, counterpart_name, org_positions, org_reasoning, org_motives, cp_positions, cp_reasoning, cp_motives) ==
    [ metadata |-> [ organization  |-> org_name,
                     counterpart   |-> counterpart_name,
                     analysis_date |-> utcnow_isoformat ],
      organization_iceberg |-> [ positions      |-> org_positions,
                                 reasoning      |-> org_reasoning,
                                 motives_values |-> org_motives ],
      counterpart_iceberg |-> [ positions      |-> cp_positions,
                                reasoning      |-> or_to_be_explored(cp_reasoning),
                                motives_values |-> or_to_be_explored(cp_motives) ],
      common_shared_space |->
          identify_common_space(org_positions, org_reasoning, org_motives,
                                cp_positions, cp_reasoning, cp_motives),
      compromise_opportunities |->
          generate_compromise_opportunities(
              identify_common_space(org_positions, org_reasoning, org_motives,
                                    cp_positions, cp_reasoning, cp_motives)),
      next_steps |->
          <<"Test assumptions about counterpart's reasoning through careful questioning",
            "Probe for underlying motives by discussing shared values identified",
            "Propose solutions that address common shared space elements",
            "Frame positions in terms of mutual benefit and risk mitigation",
            "Use identified shared values as foundation for creative problem-solving">> ]

\* json.dumps(analysis, indent=2, ensure_ascii=False) of an iceberg analysis
dumps_iceberg(a) ==
    JObj(<< <<"metadata",
              JObj(<< <<"organization", JStr(a.metadata.organization)>>,
                      <<"counterpart", JStr(a.metadata.counterpart)>>,
                      <<"analysis_date", JStr(a.metadata.analysis_date)>> >>)>>,
            <<"organization_iceberg",
              JObj(<< <<"positions", dumps_strings(a.organization_iceberg.positions)>>,
                      <<"reasoning", dumps_strings(a.organization_iceberg.reasoning)>>,
                      <<"motives_values",
                        dumps_strings(a.organization_iceberg.motives_values)>> >>)>>,
            <<"counterpart_iceberg",
              JObj(<< <<"positions", dumps_strings(a.counterpart_iceberg.positions)>>,
                      <<"reasoning", dumps_strings(a.counterpart_iceberg.reasoning)>>,
                      <<"motives_values",
                        dumps_strings(a.counterpart_iceberg.motives_values)>> >>)>>,
            <<"common_shared_space",
              JObj(<< <<"shared_values",
                        dumps_strings(a.common_shared_space.shared_values)>>,
                      <<"complementary_reasoning",
                        dumps_strings(a.common_shared_space.complementary_reasoning)>>,
                      <<"potential_aligned_positions",
                        dumps_strings(a.common_shared_space.potential_aligned_positions)>> >>)>>,
            <<"compromise_opportunities",
              JArr([i \in 1..Len(a.compromise_opportunities) |->
                       JObj(<< <<"opportunity",
                                 JStr(a.compromise_opportunities[i].opportunity)>>,
                               <<"shared_value",
                                 JStr(a.compromise_opportunities[i].shared_value)>> >>)])>>,
            <<"next_steps", dumps_strings(a.next_steps)>> >>)

\* "<br>".join([f"(bullet) {p}" for p in xs]): the bulleted items in their
\* order, the bullet character written as "*"
bullets(xs) == [i \in 1..Len(xs) |-> <<"* ", xs[i]>>]

\* _format_iceberg_markdown: the heading and the three rows of the table,
\* each row the cells of the organization, of the common shared space (its
\* first three items) and of the counterpart
format_iceberg_markdown(a) ==
    [ organization  |-> a.metadata.organization,
      counterpart   |-> a.metadata.counterpart,
      analysis_date |-> a.metadata.analysis_date,
      what |-> << bullets(a.organization_iceberg.positions),
                  bullets(take(a.common_shared_space.potential_aligned_positions, 3)),
                  bullets(a.counterpart_iceberg.positions) >>,
      how  |-> << bullets(a.organization_iceberg.reasoning),
                  bullets(take(a.common_shared_space.complementary_reasoning, 3)),
                  bullets(a.counterpart_iceberg.reasoning) >>,
      why  |-> << bullets(a.organization_iceberg.motives_values),
                  bullets(take(a.common_shared_space.shared_values, 3)),
                  bullets(a.counterpart_iceberg.motives_values) >>,
      opportunities |-> [i \in 1..Len(a.compromise_opportunities) |->
                            a.compromise_opportunities[i].opportunity],
      next_steps |-> a.next_steps ]

\* the call's effect, a being the dict _analyze_iceberg_structure returned
analyze_icebergs_returns(p, a) ==
    /\ params' = p
    /\ analysis' = a
    /\ output' = IF p.response_format = "json" THEN dumps_iceberg(a)
                 ELSE format_iceberg_markdown(a)
    /\ UNCHANGED <<classify_vars, leverage_vars, http_vars, now, previous, task_vars>>

\* analyze_icebergs, the tool humanitarian_analyze_icebergs
analyze_icebergs(p) ==
    analyze_icebergs_returns(p,
        analyze_iceberg_structure(p.organization_name, p.counterpart_name,
                                  p.organization_positions, p.organization_reasoning,
                                  p.organization_motives, p.counterpart_positions,
                                  or_empty(p, "counterpart_assumed_reasoning"),
                                  or_empty(p, "counterpart_assumed_motives")))

\* the calls of the tool: the lists of the HTTP requests, in both formats
IcebergParams ==
    { with_optional(with_optional(
          [ organization_name      |-> "ICRC",
            counterpart_name       |-> "Ministry",
            organization_positions |-> op,
            organization_reasoning |-> <<"neutrality">>,
            organization_motives   |-> <<"humanity">>,
            counterpart_positions  |-> cp,
            response_format        |-> f ],
          "counterpart_assumed_reasoning", cr), "counterpart_assumed_motives", cm) :
          op \in {<<"access">>, <<"access", "escorts">>, <<"escorts", "access", "access">>},
          cp \in {<<"access">>, <<"control">>, <<"control", "escorts">>},
          cr \in {<< >>, <<"neutrality">>, <<"security">>},
          cm \in {<< >>, <<"humanity">>},
          f \in ResponseFormat }

AnalyzeIcebergs ==
    /\ params = None
    /\ \E p \in IcebergParams : analyze_icebergs(p)

NextIceberg == AnalyzeIcebergs \/ Return

SpecIceberg == Init /\ [][NextIceberg]_vars

---------------------------------------------------------------------------
(* Validation specification: the arguments of a call of the tool as the    *)
(* caller sends them, built into StakeholderAnalysisInput before the       *)
(* function is called.  The numbers are tenths.                            *)

\* str_strip_whitespace=True on the names of the model
strip(s) == IF s \in {"UN ", " UN"} THEN "UN" ELSE s

\* StakeholderInfo with its fields stripped (model_config, line 607-610)
stripped(s) == [s EXCEPT !.name = strip(s.name)]

\* the Field constraints of StakeholderInfo on a stripped record
valid_stakeholder_info(s) ==
    /\ Len(s.name) >= 2 /\ Len(s.name) <= 200
    /\ s.power >= 0 /\ s.power <= 10
    /\ s.urgency >= 0 /\ s.urgency <= 10
    /\ s.legitimacy >= 0 /\ s.legitimacy <= 10
    /\ s.position >= -10 /\ s.position <= 10
    /\ Len(s.influence_connections) <= 20

\* StakeholderAnalysisInput(stakeholders=...): the validated list, or the
\* ValidationError; no validator compares the names of two records
validate_stakeholders(stakeholders) ==
    LET vs == [i \in 1..Len(stakeholders) |-> stripped(stakeholders[i])]
    IN  IF /\ valid_stakeholders(vs)
           /\ \A i \in 1..Len(vs) : valid_stakeholder_info(vs[i])
        THEN vs
        ELSE ValidationError

\* the tool is called with arguments as the caller sends them
call_with_arguments(stakeholders, response_format, validated) ==
    IF validated # ValidationError
    THEN analyze_stakeholders(validated, response_format)
    ELSE /\ params' = [ negotiation_context |-> Context,
                        stakeholders        |-> stakeholders,
                        response_format     |-> response_format ]
         /\ analysis' = None
         /\ output' = ValidationError
         /\ UNCHANGED <<classify_vars, leverage_vars, http_vars, now, previous, task_vars>>

\* names: two equal ignoring case, one equal to another once stripped, one
\* of a single character
SentNames == {"UN", "un", "UN ", "Gov", "U"}

\* a profile with a power above 1.0
OverProfile == [power |-> 11, urgency |-> 6, legitimacy |-> 2, position |-> 0]

SentRecords ==
    { [ name |-> n, power |-> p.power, urgency |-> p.urgency,
        legitimacy |-> p.legitimacy, position |-> p.position,
        influence_connections |-> c ] :
      n \in SentNames, p \in {HighProfile, LowProfile, OverProfile},
      c \in {<< >>, <<"UN", "UN">>} }

CallWithArguments ==
    /\ params = None
    /\ \E n \in (MIN_ITEMS - 1)..MIN_ITEMS : \E b \in [1..n -> SentRecords] :
           call_with_arguments(b, "json", validate_stakeholders(b))

NextNames == CallWithArguments \/ Return

SpecNames == Init /\ [][NextNames]_vars

---------------------------------------------------------------------------
(* Tool surface: humanitarian_create_island_of_agreement.  A string made   *)
(* by an f-string is the tuple of its pieces; a row of the Markdown table  *)
(* is the tuple of the pieces of line 270.                                 *)

\* _analyze_island_of_agreement: the four lists are fixed texts; the
\* additional_context of the model is shorter than the 500 characters kept
analyze_island_of_agreement(situation, org_name, counterpart_name, additional_context, detail_level) ==
    LET a == [ metadata |-> [ organization  |-> org_name,
                              counterpart   |-> counterpart_name,
                              analysis_date |-> utcnow_isoformat,
                              detail_level  |-> detail_level ],
               contested_facts |->
                   <<"Exact number and location of affected population requiring assistance",
                     "Current security situation and access routes to beneficiary areas",
                     "Timeline and urgency of intervention requirements",
                     "Resources and infrastructure available in operational areas">>,
               agreed_facts |->
                   <<"Existence of humanitarian crisis requiring international response",
                     "Presence of vulnerable populations needing assistance",
                     "Both parties acknowledge the severity of the situation",
                     "Need for coordinated approach to address the crisis">>,
               convergent_norms |->
                   <<"Humanitarian imperative to protect civilian populations",
                     "Commitment to international humanitarian law and principles",
                     "Responsibility to ensure aid reaches those most in need",
                     "Importance of neutrality and impartiality in aid delivery">>,
               divergent_norms |->
                   <<"Interpretation of sovereignty vs. humanitarian access rights",
                     "Priority sequencing of different population groups",
                     "Role and authority of international vs. national actors",
                     "Conditions and restrictions on humanitarian operations">>,
               recommendations |->
                   [ prioritize |->
                         <<"Build on agreed facts to establish trust and working relationship",
                           "Emphasize shared humanitarian values and convergent norms",
                           "Propose joint fact-finding missions for contested facts",
                           "Focus initial discussions on areas of normative convergence",
                           "Develop clear, evidence-based proposals for disputed elements">>,
                     avoid |->
                         <<"Making assumptions about contested facts without verification",
                           "Framing discussions in terms of divergent norms initially",
                           "Demanding immediate resolution of fundamental disagreements",
                           "Using inflammatory language about sovereignty or authority",
                           "Bypassing agreed facts to rush into contested territory">> ],
               next_steps |->
                   <<"Schedule initial dialogue focusing on agreed facts",
                     "Propose joint assessment of contested facts",
                     "Identify quick wins that demonstrate convergent norms",
                     "Prepare evidence and documentation for contested elements",
                     "Consider Iceberg Analysis to understand deeper motivations">> ]
    IN  IF additional_context # ""
        THEN [k \in DOMAIN a \cup {"contextual_notes"} |->
                 IF k = "contextual_notes"
                 THEN <<"Additional context considered: ", additional_context>>
                 ELSE a[k]]
        ELSE a

\* min(...) in place of max(...)
shortest_items(a) ==
    LET m(x, y) == IF x <= y THEN x ELSE y
    IN  m(m(Len(a.contested_facts), Len(a.agreed_facts)),
          m(Len(a.convergent_norms), Len(a.divergent_norms)))

\* max(len(...), len(...), len(...), len(...))
max_items(a) ==
    LET m(x, y) == IF x >= y THEN x ELSE y
    IN  m(m(Len(a.contested_facts), Len(a.agreed_facts)),
          m(Len(a.convergent_norms), Len(a.divergent_norms)))

\* xs[i] if i < len(xs) else "", i counting from 0
item_or_blank(xs, i) == IF i < Len(xs) THEN xs[i + 1] ELSE ""

\* the pass i of the loop of lines 264-270: f"| {contested} | {agreed} |
\* {convergent} | {divergent} |\n"
table_row(a, i) ==
    << "| ", item_or_blank(a.contested_facts, i),
       " | ", item_or_blank(a.agreed_facts, i),
       " | ", item_or_blank(a.convergent_norms, i),
       " | ", item_or_blank(a.divergent_norms, i), " |\n" >>

\* str.title() on the two detail levels
title(s) == IF s = "concise" THEN "Concise" ELSE "Detailed"

\* _format_ioa_markdown: the heading, the rows of the table in the order
\* they are appended, the steps, and the notes when the analysis has them
format_ioa_markdown(a, org_name, counterpart_name) ==
    LET md == [ heading |-> <<org_name, counterpart_name, a.metadata.analysis_date,
                              title(a.metadata.detail_level)>>,
                table   |-> [r \in 1..max_items(a) |-> table_row(a, r - 1)],
                prioritize |-> [i \in 1..Len(a.recommendations.prioritize) |->
                                   <<"- ", a.recommendations.prioritize[i], "\n">>],
                avoid      |-> [i \in 1..Len(a.recommendations.avoid) |->
                                   <<"- ", a.recommendations.avoid[i], "\n">>],
                next_steps |-> [i \in 1..Len(a.next_steps) |->
                                   <<ToString(i), ". ", a.next_steps[i], "\n">>] ]
    IN  IF "contextual_notes" \in DOMAIN a
        THEN [k \in DOMAIN md \cup {"contextual_notes"} |->
                 IF k = "contextual_notes" THEN a.contextual_notes ELSE md[k]]
        ELSE md

\* json.dumps(analysis, indent=2, ensure_ascii=False) of an IoA analysis
dumps_ioa(a) ==
    JObj(<< <<"metadata",
              JObj(<< <<"organization", JStr(a.metadata.organization)>>,
                      <<"counterpart", JStr(a.metadata.counterpart)>>,
                      <<"analysis_date", JStr(a.metadata.analysis_date)>>,
                      <<"detail_level", JStr(a.metadata.detail_level)>> >>)>>,
            <<"contested_facts", dumps_strings(a.contested_facts)>>,
            <<"agreed_facts", dumps_strings(a.agreed_facts)>>,
            <<"convergent_norms", dumps_strings(a.convergent_norms)>>,
            <<"divergent_norms", dumps_strings(a.divergent_norms)>>,
            <<"recommendations",
              JObj(<< <<"prioritize", dumps_strings(a.recommendations.prioritize)>>,
                      <<"avoid", dumps_strings(a.recommendations.avoid)>> >>)>>,
            <<"next_steps", dumps_strings(a.next_steps)>> >>
         \o (IF "contextual_notes" \in DOMAIN a
             THEN << <<"contextual_notes", JStr(a.contextual_notes)>> >>
             ELSE << >>))

\* the call's effect: lines 151-161, a being the analysis
create_island_of_agreement_returns(p, a) ==
    /\ params' = p
    /\ analysis' = a
    /\ output' = IF p.response_format = "json" THEN dumps_ioa(a)
                 ELSE format_ioa_markdown(a, p.organization_name, p.counterpart_name)
    /\ UNCHANGED <<classify_vars, leverage_vars, http_vars, now, previous, task_vars>>

\* create_island_of_agreement, the tool humanitarian_create_island_of_agreement
create_island_of_agreement(p) ==
    create_island_of_agreement_returns(p,
        analyze_island_of_agreement(p.situation_description, p.organization_name,
                                    p.counterpart_name, p.additional_context,
                                    p.detail_level))

---------------------------------------------------------------------------
(* Table specification: the tool is called, and _format_ioa_markdown is    *)
(* applied to analyses whose four lists have every length up to MaxRows.   *)

\* the longest list of an analysis handed to _format_ioa_markdown
MaxRows == 3

\* a situation_description of 50 characters or more
Situation == "The camps in the north cannot be reached since the road was closed"

IoaParams ==
    [ situation_description : {Situation},
      organization_name     : {"ICRC"},
      counterpart_name      : {"Ministry"},
      additional_context    : {"", "Rainy season starts in June"},
      response_format       : ResponseFormat,
      detail_level          : {"concise", "detailed"} ]

\* the lists of at most n items over two texts
ListsOfTwo(x, y, n) == UNION {[1..k -> {x, y}] : k \in 0..n}

\* the first k items of xs, for every k up to n
Prefixes(xs, n) == {SubSeq(xs, 1, k) : k \in 0..(IF n < Len(xs) THEN n ELSE Len(xs))}

\* an analysis with the four lists given
IoaAnalysis(contested, agreed, convergent, divergent) ==
    [ metadata |-> [ organization |-> "ICRC", counterpart |-> "Ministry",
                     analysis_date |-> utcnow_isoformat, detail_level |-> "detailed" ],
      contested_facts  |-> contested,
      agreed_facts     |-> agreed,
      convergent_norms |-> convergent,
      divergent_norms  |-> divergent,
      recommendations  |-> [ prioritize |-> <<"Build on agreed facts">>,
                             avoid |-> <<"Bypassing agreed facts">> ],
      next_steps       |-> <<"Schedule initial dialogue focusing on agreed facts">> ]

CreateIslandOfAgreement ==
    /\ params = None
    /\ \E p \in IoaParams : create_island_of_agreement(p)

\* _format_ioa_markdown applied to an analysis
FormatIoaMarkdown ==
    /\ params = None
    /\ \E contested \in ListsOfTwo("route", "road", MaxRows),
          agreed \in ListsOfTwo("crisis", "need", MaxRows),
          convergent \in Prefixes(<<"law", "aid", "care", "trust">>, MaxRows),
          divergent \in Prefixes(<<"rule", "order", "role", "terms">>, MaxRows) :
           create_island_of_agreement_returns(
               [ situation_description |-> Situation, organization_name |-> "ICRC",
                 counterpart_name |-> "Ministry", additional_context |-> "",
                 response_format |-> "markdown", detail_level |-> "detailed" ],
               IoaAnalysis(contested, agreed, convergent, divergent))

NextTable == CreateIslandOfAgreement \/ FormatIoaMarkdown \/ Return

SpecTable == Init /\ [][NextTable]_vars

---------------------------------------------------------------------------
(* Claims on the two classifiers (SpecClassify)                            *)

Classified == entry # None

ApiClassified == http_entry # None

\* the number of the three attributes of sh that are at least 0.7
HighCount ==
    Cardinality({a \in {"power", "urgency", "legitimacy"} : sh[a] >= 7})

\* C2: on the tool surface priority_score is the number of the three
\* attributes that are >= 0.7, and the tier is First Priority iff that number
\* is 3, Second Priority iff it is 2, Third Priority iff it is 0 or 1.
C2_ThresholdCount ==
    Classified =>
        /\ entry.priority_score = HighCount
        /\ (entry.priority = "First Priority") <=> (HighCount = 3)
        /\ (entry.priority = "Second Priority") <=> (HighCount = 2)
        /\ (entry.priority = "Third Priority") <=> (HighCount \in {0, 1})

\* a record with all three attributes exactly 0.7 has been ranked First
C2_Witness ==
    /\ Classified
    /\ sh.power = 7 /\ sh.urgency = 7 /\ sh.legitimacy = 7
    /\ entry.priority = "First Priority"
    /\ entry.priority_score = 3

\* power + urgency + legitimacy, in tenths
SalienceTenths == sh.power + sh.urgency + sh.legitimacy

\* C3: on the HTTP surface the tier is First iff salience >= 2.0, Second iff
\* 1.0 <= salience < 2.0, Third iff salience < 1.0, where salience is
\* power + urgency + legitimacy.
C3_SalienceSum ==
    ApiClassified =>
        /\ (http_entry.priority_level = "First") <=> (SalienceTenths >= 20)
        /\ (http_entry.priority_level = "Second") <=>
               (SalienceTenths >= 10 /\ SalienceTenths < 20)
        /\ (http_entry.priority_level = "Third") <=> (SalienceTenths < 10)

\* C4: the two schemes are not equivalent: the record with power 1.0,
\* urgency 1.0 and legitimacy 0.0 is Second Priority by the threshold count
\* and First by the salience sum, and the record with 0.4, 0.3, 0.3 is Third
\* Priority by the threshold count and Second by the salience sum.
C4_SchemesDiffer ==
    (Classified /\ ApiClassified) =>
        /\ (sh.power = 10 /\ sh.urgency = 10 /\ sh.legitimacy = 0) =>
               (entry.priority = "Second Priority" /\ http_entry.priority_level = "First")
        /\ (sh.power = 4 /\ sh.urgency = 3 /\ sh.legitimacy = 3) =>
               (entry.priority = "Third Priority" /\ http_entry.priority_level = "Second")

\* one record has been ranked by both surfaces, and the tiers differ
C4_Witness ==
    /\ Classified
    /\ ApiClassified
    /\ sh.power = 10 /\ sh.urgency = 10 /\ sh.legitimacy = 0
    /\ entry.priority = "Second Priority"
    /\ http_entry.priority_level = "First"

\* C5: on the tool surface stance is Supportive iff position >= 0.5, Opposed
\* iff position <= -0.5, and Neutral otherwise.
C5_Stance ==
    Classified =>
        /\ (entry.stance = "Supportive") <=> (sh.position >= 5)
        /\ (entry.stance = "Opposed") <=> (sh.position <= -5)
        /\ (entry.stance = "Neutral") <=> (sh.position > -5 /\ sh.position < 5)

\* position 0.5 has been labelled Supportive
C5_Witness ==
    /\ Classified
    /\ sh.position = 5
    /\ entry.stance = "Supportive"

\* the stance class an HTTP label stands for
StanceClass(label) ==
    IF label = "Adversarial" THEN "Opposed" ELSE label

\* C6: the HTTP label of a record falls in the same stance class as its
\* tool-surface stance; a record the HTTP surface labels Supportive is an
\* ally (of any other target), and one it labels Adversarial is an opponent.
C6_SameStance ==
    (Classified /\ ApiClassified) =>
        /\ StanceClass(http_entry.engagement_strategy) = entry.stance
        /\ (entry.stance = "Supportive") =>
               allies(<<http_entry>>, "Gov") = <<http_entry>>
        /\ (entry.stance = "Opposed") =>
               opponents(<<http_entry>>) = <<http_entry>>

---------------------------------------------------------------------------
(* Claims on whole batches                                                 *)

\* a call of analyze_stakeholders has produced its analysis
Analysed == analysis # None

Min(a, b) == IF a < b THEN a ELSE b

NamesOf(seq) == {seq[i].name : i \in 1..Len(seq)}

FirstIndex(seq, n) ==
    CHOOSE i \in 1..Len(seq) :
        seq[i].name = n /\ \A j \in 1..(i - 1) : seq[j].name # n

LastIndex(seq, n) ==
    CHOOSE i \in 1..Len(seq) :
        seq[i].name = n /\ \A j \in (i + 1)..Len(seq) : seq[j].name # n

\* the sum of the lengths of the influences lists of a batch
SumOfLengths(seq) ==
    LET f[i \in 0..Len(seq)] ==
            IF i = 0 THEN 0 ELSE f[i - 1] + Len(seq[i].influence_connections)
    IN  f[Len(seq)]

\* the entry e of the analysis is the record r of the batch
Matches(e, r) ==
    /\ e.name = r.name
    /\ e.power = r.power
    /\ e.urgency = r.urgency
    /\ e.legitimacy = r.legitimacy
    /\ e.position = r.position
    /\ e.influence_connections = r.influence_connections

SameTriple(r, q) ==
    r.power = q.power /\ r.urgency = q.urgency /\ r.legitimacy = q.legitimacy

\* C1: every record of the batch appears in exactly one of the three
\* priority groups, the groups together hold exactly the entries of
\* all_stakeholders, and two records with equal (power, urgency, legitimacy)
\* are in the same group whatever their name, position and influences.
C1_OneTier ==
    Analysed =>
        LET b   == params.stakeholders
            sa  == analysis.all_stakeholders
            g   == analysis.priority_groups
            grp == <<g.first_priority, g.second_priority, g.third_priority>>
            Holding(r) ==
                {k \in 1..3 : \E i \in 1..Len(grp[k]) : Matches(grp[k][i], r)}
            Occurrences(seq, P(_)) == Cardinality({i \in 1..Len(seq) : P(seq[i])})
            InGroups(P(_)) ==
                Occurrences(grp[1], P) + Occurrences(grp[2], P) + Occurrences(grp[3], P)
        IN  /\ \A i \in 1..Len(b) :
                  /\ Cardinality(Holding(b[i])) = 1
                  /\ InGroups(LAMBDA e : Matches(e, b[i]))
                         = Occurrences(b, LAMBDA r : r = b[i])
            /\ \A k \in 1..3 : \A i \in 1..Len(grp[k]) :
                  InGroups(LAMBDA e : e = grp[k][i])
                      = Occurrences(sa, LAMBDA e : e = grp[k][i])
            /\ \A i \in 1..Len(sa) :
                  InGroups(LAMBDA e : e = sa[i]) = Occurrences(sa, LAMBDA e : e = sa[i])
            /\ \A i, j \in 1..Len(b) :
                  SameTriple(b[i], b[j]) => Holding(b[i]) = Holding(b[j])

\* a batch of three has been analysed in which two records with equal triples
\* differ in name, position and influences, and two groups are not empty
C1_Witness ==
    /\ Analysed
    /\ Len(params.stakeholders) = 3
    /\ \E i, j \in 1..3 :
          /\ SameTriple(params.stakeholders[i], params.stakeholders[j])
          /\ params.stakeholders[i].name # params.stakeholders[j].name
          /\ params.stakeholders[i].position # params.stakeholders[j].position
          /\ params.stakeholders[i].influence_connections
                 # params.stakeholders[j].influence_connections
    /\ Len(analysis.priority_groups.first_priority) = 2
    /\ Len(analysis.priority_groups.second_priority) = 1

\* C7: total_connections is the sum of the lengths of the influences lists
\* of all records of the batch, also when a name is on more than one record.
C7_TotalConnections ==
    Analysed =>
        analysis.relationship_analysis.total_connections
            = SumOfLengths(params.stakeholders)

\* r is the names of at most 5 members of U, those that come first, in the
\* order: larger cnt first, and among equal cnt smaller pos first (cnt and
\* pos are functions on U)
IsRanking(r, U, cnt, pos) ==
    LET Before(n, m) == cnt[n] > cnt[m] \/ (cnt[n] = cnt[m] /\ pos[n] < pos[m])
    IN  /\ Len(r) = Min(5, Cardinality(U))
        /\ \A i \in 1..Len(r) : r[i] \in U
        /\ \A i, j \in 1..Len(r) : i < j => Before(r[i], r[j])
        /\ \A n \in U : (\A i \in 1..Len(r) : r[i] # n) =>
                            \A i \in 1..Len(r) : Before(r[i], n)

ConnectorNames ==
    [i \in 1..Len(analysis.relationship_analysis.key_connectors) |->
        analysis.relationship_analysis.key_connectors[i].name]

InfluencerNames ==
    [i \in 1..Len(analysis.relationship_analysis.key_influencers) |->
        analysis.relationship_analysis.key_influencers[i].name]

Mentions(seq) ==
    LET f[i \in 0..Len(seq)] ==
            IF i = 0 THEN << >> ELSE f[i - 1] \o seq[i].influence_connections
    IN  f[Len(seq)]

Targets(seq) == {Mentions(seq)[i] : i \in 1..Len(Mentions(seq))}

C10_GhostNodes ==
    Analysed =>
        LET b  == params.stakeholders
            sa == analysis.all_stakeholders
            ra == analysis.relationship_analysis
        IN  \A i \in 1..Len(b) : \A j \in 1..Len(b[i].influence_connections) :
                LET ghost == b[i].influence_connections[j]
                IN  ghost \notin NamesOf(b) =>
                        /\ dict_has(influenced_by(sa), ghost)
                        /\ \E k \in 1..Len(dict_get(influenced_by(sa), ghost)) :
                              dict_get(influenced_by(sa), ghost)[k] = b[i].name
                        /\ Len(ra.key_influencers) < 5 =>
                              \E k \in 1..Len(ra.key_influencers) :
                                  ra.key_influencers[k].name = ghost
                        /\ Len(dict_get(influence_map(sa), b[i].name))
                               = Len(b[i].influence_connections)
                        /\ \A k \in 1..Len(ra.key_connectors) :
                              ra.key_connectors[k].name = b[i].name =>
                                  ra.key_connectors[k].influences_count
                                      = Len(b[i].influence_connections)
                        /\ ra.total_connections = SumOfLengths(b)

---------------------------------------------------------------------------
(* Claims on leverage_stakeholder_influence (SpecLeverage)                 *)

\* a call of leverage_stakeholder_influence has ended
Leveraged == leverage_result # None

\* the call returned a string (it did not raise)
LeverageReturned == Leveraged /\ "returned" \in DOMAIN leverage_result

\* the string returned is one of the two error messages
LeverageError == LeverageReturned /\ "plain" \in DOMAIN leverage_result.returned

\* the string returned is an influence strategy
LeverageStrategy == LeverageReturned /\ ~LeverageError

\* the records of the payload: all_stakeholders of the analysis handed over
Payload == analysis.all_stakeholders

\* the sets of names of the model that differ in letter case only
CaseClasses ==
    { {"UN", "Un", "un"}, {"Gov", "GOV", "gov"}, {"NGO", "ngo"}, {"Army", "army"},
      {"Donor", "donor"}, {"Press", "press"}, {"Court", "court"},
      {"Union", "UNION", "union"}, {"Ghost", "ghost"}, {"Nobody", "nobody"} }

EqualIgnoringCase(a, b) == a = b \/ \E c \in CaseClasses : a \in c /\ b \in c

\* the indices of the payload records named as the target is, ignoring case
TargetMatches ==
    {i \in 1..Len(Payload) :
        EqualIgnoringCase(Payload[i].name, leverage_params.target_stakeholder)}

\* the strategy returned, read back from the string
ReturnedStrategy ==
    IF leverage_params.response_format = "json"
    THEN loads_value(leverage_result.returned)
    ELSE [ target_stakeholder |-> [name |-> leverage_result.returned.md.header[1]],
           influence_pathways |-> leverage_result.returned.md.pathways,
           coalition_opportunities |->
               leverage_result.returned.md.coalition_opportunities ]

\* the name of the record the strategy is for
ResolvedName == ReturnedStrategy.target_stakeholder.name

\* the names of the payload records that satisfy P, in payload order
PayloadIndicesNames(S) ==
    LET f[i \in 0..Len(Payload)] ==
            IF i = 0 THEN << >>
            ELSE IF i \in S THEN Append(f[i - 1], Payload[i].name) ELSE f[i - 1]
    IN  f[Len(Payload)]

\* the payload records whose influences list holds the resolved name
DirectInfluencers ==
    {i \in 1..Len(Payload) :
        \E j \in 1..Len(Payload[i].influence_connections) :
            Payload[i].influence_connections[j] = ResolvedName}

PathwayStances ==
    { <<"Direct Advocacy", "Supportive">>, <<"Neutral Conversion", "Neutral">>,
      <<"Opposition Neutralization", "Opposed">> }

PowerfulSupportive ==
    {i \in 1..Len(Payload) : Payload[i].stance = "Supportive" /\ Payload[i].power >= 7}

\* the entries of coalition_opportunities of one type
Coalitions(type) ==
    LET os == ReturnedStrategy.coalition_opportunities
    IN  {i \in 1..Len(os) : os[i].coalition_type = type}

\* C12: coalition_opportunities has a Power Coalition entry iff some record
\* of the payload is Supportive with power >= 0.7, and its members are all
\* such records (power 0.7 included), in payload order.
C12_PowerCoalition ==
    LeverageStrategy =>
        /\ (Coalitions("Power Coalition") # {}) <=> (PowerfulSupportive # {})
        /\ Cardinality(Coalitions("Power Coalition")) <= 1
        /\ \A i \in Coalitions("Power Coalition") :
              ReturnedStrategy.coalition_opportunities[i].members
                  = PayloadIndicesNames(PowerfulSupportive)

\* a Power Coalition was returned that has a member of power 0.7 and leaves
\* out a Supportive record of power 0.6
C12_Witness ==
    /\ LeverageStrategy
    /\ Coalitions("Power Coalition") # {}
    /\ \E i \in PowerfulSupportive : Payload[i].power = 7
    /\ \E i \in 1..Len(Payload) :
          Payload[i].stance = "Supportive" /\ Payload[i].power = 6

\* the record the strategy is for: the first of the payload named as the
\* target is, ignoring case
TargetIndex == CHOOSE i \in TargetMatches : \A j \in TargetMatches : i <= j

\* the payload records other than the target in the target's tier
Peers ==
    {i \in 1..Len(Payload) :
        i # TargetIndex /\ Payload[i].priority = Payload[TargetIndex].priority}

FirstFive(S) == {i \in S : Cardinality({j \in S : j < i}) < 5}

\* C13: coalition_opportunities has a Peer Coalition entry iff some record
\* other than the target is in the target's priority tier; its members are
\* such records only, never the target, and the first 5 of them in payload
\* order.
C13_PeerCoalition ==
    LeverageStrategy =>
        /\ (Coalitions("Peer Coalition") # {}) <=> (Peers # {})
        /\ \A i \in Coalitions("Peer Coalition") :
              ReturnedStrategy.coalition_opportunities[i].members
                  = PayloadIndicesNames(FirstFive(Peers))

\* the names of the payload are pairwise distinct
DistinctNames ==
    \A i, j \in 1..Len(Payload) : Payload[i].name = Payload[j].name => i = j

\* C13 on the payloads whose names are pairwise distinct
C13_PeerCoalitionDistinct == (Leveraged /\ DistinctNames) => C13_PeerCoalition

\* no record of the payload is named as the target is, ignoring case
NoMatch == TargetMatches = {}

NotFoundMessage == Plain("Error: Target stakeholder not found")

\* C14: leverage_stakeholder_influence returns the "not found" error iff no
\* record of all_stakeholders has a name equal to target_stakeholder
\* ignoring letter case; when one has, it returns an influence strategy for
\* that record; it raises in neither case.
C14_NotFound ==
    Leveraged =>
        /\ LeverageReturned
        /\ (leverage_result.returned = NotFoundMessage) <=> NoMatch
        /\ ~NoMatch =>
              /\ LeverageStrategy
              /\ ResolvedName = Payload[TargetIndex].name

\* a strategy was returned for a record whose name differs from the target
\* name asked for in letter case
C14_Witness ==
    /\ LeverageStrategy
    /\ ResolvedName # leverage_params.target_stakeholder
    /\ EqualIgnoringCase(ResolvedName, leverage_params.target_stakeholder)

\* the leverage tool was handed the string a call of analyze_stakeholders
\* with response_format json returned, and a target name that is, in some
\* letter case, the name of a record of the batch
RoundTrip ==
    /\ Leveraged
    /\ params.response_format = "json"
    /\ leverage_params.stakeholder_analysis_data = output
    /\ \E i \in 1..Len(params.stakeholders) :
          EqualIgnoringCase(params.stakeholders[i].name,
                            leverage_params.target_stakeholder)

\* C15: the JSON output of analyze_stakeholders handed to
\* leverage_stakeholder_influence with a target that is, in any letter case,
\* the name of a record of the batch, gives neither the invalid-JSON nor the
\* not-found error, and resolves to a record named as the target ignoring case.
C15_RoundTrip ==
    RoundTrip =>
        /\ LeverageStrategy
        /\ EqualIgnoringCase(ResolvedName, leverage_params.target_stakeholder)
        /\ \E i \in 1..Len(params.stakeholders) :
              params.stakeholders[i].name = ResolvedName

\* the round trip was made with a target name in another letter case than
\* the record's, and the strategy was returned as JSON
C15_Witness ==
    /\ RoundTrip
    /\ leverage_params.response_format = "json"
    /\ \A i \in 1..Len(params.stakeholders) :
          params.stakeholders[i].name # leverage_params.target_stakeholder
    /\ LeverageStrategy

---------------------------------------------------------------------------
(* Claims on malformed analysis blobs (SpecBlob)                           *)

\* the blob of the call cannot be parsed as JSON
Unparsable == "raised" \in DOMAIN json_loads(leverage_params.stakeholder_analysis_data)

\* the blob parses, and has no all_stakeholders member or an entry
\* without one of the keys name, influence_connections, stance
LacksStructure ==
    /\ ~Unparsable
    /\ LET data == loads_value(leverage_params.stakeholder_analysis_data)
       IN  \/ "all_stakeholders" \notin DOMAIN data
           \/ \E i \in 1..Len(data.all_stakeholders) :
                 ~(EntryKeys \subseteq DOMAIN data.all_stakeholders[i])

\* C16: leverage_stakeholder_influence returns a string for every blob:
\* the invalid-JSON error message for a blob that cannot be parsed, and an
\* error message, never an exception, for a blob that parses but has no
\* all_stakeholders list or has an entry without name,
\* influence_connections or stance.
C16_TypedErrors ==
    Leveraged =>
        /\ "returned" \in DOMAIN leverage_result
        /\ Unparsable =>
              leverage_result.returned =
                  Plain("Error: Invalid stakeholder_analysis_data JSON format")
        /\ LacksStructure => LeverageError

\* the part of C16 on blobs that cannot be parsed
C16_UnparsableTyped ==
    (Leveraged /\ Unparsable) =>
        /\ "returned" \in DOMAIN leverage_result
        /\ leverage_result.returned =
               Plain("Error: Invalid stakeholder_analysis_data JSON format")

\* a blob that parses and lacks structure has made the call raise
C16_Raised == Leveraged /\ LacksStructure /\ "raised" \in DOMAIN leverage_result

---------------------------------------------------------------------------
(* Claims on the HTTP handlers (SpecHttp)                                  *)

\* a handler has returned or raised
Responded == http_response # None

\* a string that is not empty
IsText(e) == "plain" \in DOMAIN e /\ e.plain # << >>

\* C17: every response of the five /api/v1 handlers is an envelope: with
\* success true, data is present and error absent; with success false,
\* error is a string and data absent; an exception raised in the body of a
\* handler never leaves it.
C17_Envelope ==
    Responded =>
        /\ DOMAIN http_response = {"success", "data", "error", "message"}
        /\ http_response.success \in BOOLEAN
        /\ http_response.success =>
              http_response.data # None /\ http_response.error = None
        /\ ~http_response.success =>
              IsText(http_response.error) /\ http_response.data = None

\* api_leverage_influence has answered with the failure envelope made from
\* a KeyError, a TypeError or an AttributeError of its body
C17_Witness ==
    /\ Responded
    /\ http_request.handler = "api_leverage_influence"
    /\ "success" \in DOMAIN http_response
    /\ ~http_response.success
    /\ http_response.message = "Failed to develop tactics"
    /\ http_response.error = Plain(<<"'name'">>)

---------------------------------------------------------------------------
(* Claims on the size of the batch (SpecSize)                              *)

\* the sizes the analysis is said to accept
AcceptedSizes == 2..50

\* the tool call was let through: every record was classified and the
\* relationships were built
ToolAccepted ==
    /\ output # ValidationError
    /\ analysis # None
    /\ Len(analysis.all_stakeholders) = Len(params.stakeholders)

\* the tool call was rejected and nothing was computed
ToolRejected == output = ValidationError /\ analysis = None

HttpAccepted ==
    /\ http_response # ValidationError
    /\ http_response.success
    /\ Len(http_response.data.stakeholders) = Len(http_request.request.stakeholders)

HttpRejected == http_response = ValidationError

\* C18: on both surfaces the stakeholder analysis accepts a batch iff it
\* has between 2 and 50 records inclusive; a batch of 0, 1, 51 or more
\* records is rejected before anything is classified.
C18_BatchSize ==
    /\ params # None =>
          IF Len(params.stakeholders) \in AcceptedSizes THEN ToolAccepted ELSE ToolRejected
    /\ http_request # None =>
          IF Len(http_request.request.stakeholders) \in AcceptedSizes
          THEN HttpAccepted ELSE HttpRejected

\* a batch of exactly 50 records has been accepted by the tool
C18_Witness ==
    /\ params # None
    /\ Len(params.stakeholders) = 50
    /\ ToolAccepted

\* batches of exactly 2 and of 51 records on the HTTP surface, of 1 and of
\* 51 on the tool surface
C18_HttpTwo ==
    http_request # None /\ Len(http_request.request.stakeholders) = 2 /\ HttpAccepted

C18_HttpFiftyOne ==
    http_request # None /\ Len(http_request.request.stakeholders) = 51 /\ HttpRejected

C18_ToolOne == params # None /\ Len(params.stakeholders) = 1 /\ ToolRejected

C18_ToolFiftyOne == params # None /\ Len(params.stakeholders) = 51 /\ ToolRejected

---------------------------------------------------------------------------
(* Claims on repeated calls (SpecClock)                                    *)

\* the call under way has the parameters of the call before
Repeated == params # None /\ previous # None /\ params = previous.params

\* C19: a tool called twice with identical parameters, at any two moments,
\* returns identical output.
C19_Repeatable == Repeated => output = previous.output

\* the part of C19 on two calls that read the same clock value
C19_SameMoment ==
    (Repeated /\ analysis.metadata.analysis_date = previous.at) => output = previous.output

\* the same parameters at two moments have given two outputs
C19_Differ == Repeated /\ output # previous.output

---------------------------------------------------------------------------
(* Claims on calls side by side (SpecTasks)                                *)

\* the response to the request r when it is the only request ever served
Alone(handler, r) ==
    CASE handler = "analyze_stakeholders" ->
             format_response(analyze_stakeholder_landscape(r.negotiation_context,
                                                           r.stakeholders),
                             r.negotiation_context, r.response_format)
      [] handler = "api_analyze_stakeholders" -> api_analyze_stakeholders(r)
      [] handler = "api_leverage_influence" -> api_leverage_influence(r)

\* C20: no state is shared between requests: whatever the interleaving,
\* the response to each request is the one it would get as the only
\* request ever served, a failed request changes no other's outcome, and
\* no handler changes its input batch or a module-level value.
C20_NoSharedState ==
    /\ \A t \in 1..Len(tasks) :
          /\ tasks[t].response # None =>
                tasks[t].response = Alone(tasks[t].handler, tasks[t].sent)
          /\ tasks[t].request = tasks[t].sent
    /\ module_level = ModuleLevel

\* a call that arrived second has its response while the call that arrived
\* first is in the middle of its loop
C20_Witness ==
    /\ Len(tasks) = 2
    /\ tasks[1].passes = 1
    /\ tasks[1].response = None
    /\ tasks[2].handler \in {"analyze_stakeholders", "api_analyze_stakeholders"}
    /\ tasks[2].response # None

\* an analysis has its response beside a leverage request that failed
C20_BesideFailure ==
    /\ Len(tasks) = 2
    /\ tasks[1].handler = "api_leverage_influence"
    /\ tasks[1].response # None
    /\ ~tasks[1].response.success
    /\ tasks[2].handler = "analyze_stakeholders"
    /\ tasks[2].response # None

---------------------------------------------------------------------------
(* Claims on the HTTP iceberg analysis (SpecHttp)                          *)

\* the call in progress is api_analyze_icebergs and it has succeeded
IcebergAnswered ==
    /\ http_request # None
    /\ http_request.handler = "api_analyze_icebergs"
    /\ http_response.success

\* the strings that occur in both lists
InBoth(xs, ys) ==
    {s \in {xs[i] : i \in 1..Len(xs)} : \E j \in 1..Len(ys) : ys[j] = s}

\* the list given for an optional field, empty when the field is absent
Given(r, field) == IF field \in DOMAIN r THEN r[field] ELSE << >>

\* the value reported for a level: the intersection, or the fixed phrases
Reported(both, fixed) == IF both # {} THEN both ELSE fixed

\* C21: in the response of the HTTP iceberg analysis, common_ground,
\* aligned_reasoning and shared_values are the strings found in both
\* parties' positions, reasoning and motives lists (an absent counterpart
\* list counting as empty), or the fixed phrases of the level when there
\* are none; identified is true iff one of the three intersections is
\* not empty.
C21_CommonGround ==
    IcebergAnswered =>
        LET r == http_request.request
            d == http_response.data
            p == InBoth(r.organization_positions, r.counterpart_positions)
            h == InBoth(r.organization_reasoning, Given(r, "counterpart_reasoning"))
            w == InBoth(r.organization_motives, Given(r, "counterpart_motives"))
        IN  /\ d.surface_level.common_ground =
                   Reported(p, {"Seek to resolve the conflict",
                                "Both parties desire stability"})
            /\ d.reasoning_level.aligned_reasoning =
                   Reported(h, {"Need for productive dialogue",
                                "Importance of mutual benefit"})
            /\ d.motives_level.shared_values =
                   Reported(w, {"Long-term cooperation", "Sustainable peace"})
            /\ d.common_shared_space.identified <=> (p # {} \/ h # {} \/ w # {})

\* positions overlap in one string at different places of the two lists,
\* reasoning is disjoint and the counterpart's motives are absent
C21_Witness ==
    /\ IcebergAnswered
    /\ http_request.request.organization_positions = <<"escorts", "access", "access">>
    /\ http_request.request.counterpart_positions = <<"control", "escorts">>
    /\ http_response.data.surface_level.common_ground = {"escorts"}
    /\ "counterpart_reasoning" \in DOMAIN http_request.request
    /\ http_response.data.reasoning_level.aligned_reasoning =
           {"Need for productive dialogue", "Importance of mutual benefit"}
    /\ "counterpart_motives" \notin DOMAIN http_request.request
    /\ http_response.data.common_shared_space.identified

\* nothing overlaps: the three levels report the fixed phrases
C21_Fallback ==
    /\ IcebergAnswered
    /\ ~http_response.data.common_shared_space.identified
    /\ http_response.data.surface_level.common_ground =
           {"Seek to resolve the conflict", "Both parties desire stability"}
    /\ http_response.data.motives_level.shared_values =
           {"Long-term cooperation", "Sustainable peace"}

---------------------------------------------------------------------------
(* Claims on the tool's iceberg analysis (SpecIceberg)                     *)

\* a call of humanitarian_analyze_icebergs has returned
IcebergAnalysed == params # None /\ "organization_positions" \in DOMAIN params

\* the items of a list
Items(xs) == {xs[i] : i \in 1..Len(xs)}

\* the fixed phrases of the three levels
GenericPositions == Items(identify_common_space(<< >>, << >>, << >>, << >>, << >>, << >>).potential_aligned_positions)

GenericReasoning == Items(identify_common_space(<< >>, << >>, << >>, << >>, << >>, << >>).complementary_reasoning)

GenericValues == Items(identify_common_space(<< >>, << >>, << >>, << >>, << >>, << >>).shared_values)

\* a level of the common shared space follows the inputs: every shared item
\* is in it, and a fixed phrase is in it only when nothing is shared
FollowsInputs(level, both, generic) ==
    /\ both \subseteq Items(level)
    /\ both # {} => Items(level) \cap generic = {}

\* C22: the tool's iceberg analysis computes the common shared space from
\* its inputs: an item that both parties' lists hold appears in the level's
\* entry of common_shared_space, and the fixed generic phrases appear only
\* when the level's intersection is empty.
C22_ComputedFromInputs ==
    IcebergAnalysed =>
        /\ FollowsInputs(analysis.common_shared_space.potential_aligned_positions,
                         InBoth(params.organization_positions, params.counterpart_positions),
                         GenericPositions)
        /\ FollowsInputs(analysis.common_shared_space.complementary_reasoning,
                         InBoth(params.organization_reasoning,
                                Given(params, "counterpart_assumed_reasoning")),
                         GenericReasoning)
        /\ FollowsInputs(analysis.common_shared_space.shared_values,
                         InBoth(params.organization_motives,
                                Given(params, "counterpart_assumed_motives")),
                         GenericValues)

\* what the code does: the common shared space is the same for every input
C22_SameForEveryInput ==
    IcebergAnalysed =>
        /\ Items(analysis.common_shared_space.potential_aligned_positions) = GenericPositions
        /\ Items(analysis.common_shared_space.complementary_reasoning) = GenericReasoning
        /\ Items(analysis.common_shared_space.shared_values) = GenericValues

\* both parties hold the position "access" and the fixed phrases are reported
C22_SharedItemIgnored ==
    /\ IcebergAnalysed
    /\ params.organization_positions = <<"access">>
    /\ params.counterpart_positions = <<"access">>
    /\ "access" \notin Items(analysis.common_shared_space.potential_aligned_positions)

---------------------------------------------------------------------------
(* Claims on the names of a batch (SpecNames)                              *)

\* the batch of the call under way has been analysed
BatchAnalysed == params # None /\ analysis # None /\ "stakeholders" \in DOMAIN params

\* upper and lower case of the names sent
SameIgnoringCase(a, b) == a = b \/ {a, b} = {"UN", "un"}

\* C23: in every batch that reaches the classifier and the graph builder the
\* names of the records are pairwise distinct ignoring letter case (a batch
\* with two records whose names are equal ignoring case is not analysed).
C23_UniqueNames ==
    BatchAnalysed =>
        \A i, j \in 1..Len(params.stakeholders) :
            SameIgnoringCase(params.stakeholders[i].name, params.stakeholders[j].name)
                => i = j

\* a batch of "UN" and "un" has been analysed: both are in all_stakeholders
C23_CaseTwins ==
    /\ BatchAnalysed
    /\ params.stakeholders[1].name = "UN"
    /\ params.stakeholders[2].name = "un"
    /\ Len(analysis.all_stakeholders) = 2

\* a batch of two records named "UN" has been analysed
C23_Twins ==
    /\ BatchAnalysed
    /\ params.stakeholders[1].name = "UN"
    /\ params.stakeholders[2].name = "UN"
    /\ analysis.metadata.total_stakeholders = 2

\* what the validation does reject: a batch of one record, a name of one
\* character, a power above 1.0
C23_Rejected ==
    (params # None /\ output = ValidationError) =>
        \/ Len(params.stakeholders) < MIN_ITEMS
        \/ \E i \in 1..Len(params.stakeholders) :
               params.stakeholders[i].name = "U" \/ params.stakeholders[i].power > 10

---------------------------------------------------------------------------
(* Claims on the degrees of the influence graph (Spec)                     *)

\* the names of the batch are pairwise distinct
BatchNamesDistinct ==
    \A i, j \in 1..Len(params.stakeholders) :
        params.stakeholders[i].name = params.stakeholders[j].name => i = j

\* the entries of a list that are the name n, each counted
TimesListed(xs, n) == Cardinality({j \in 1..Len(xs) : xs[j] = n})

\* C24: the influences_count reported for a record is the length of its
\* influences list, nothing de-duplicated: a name listed twice in the list
\* counts twice.
C24_OutDegree ==
    Analysed =>
        \A i \in 1..Len(params.stakeholders) :
            \A k \in 1..Len(analysis.relationship_analysis.key_connectors) :
                LET c == analysis.relationship_analysis.key_connectors[k]
                    s == params.stakeholders[i]
                IN  c.name = s.name => c.influences_count = Len(s.influence_connections)

\* C24 on the batches whose names are pairwise distinct
C24_OutDegreeDistinct == (Analysed /\ BatchNamesDistinct) => C24_OutDegree

\* names pairwise distinct, one record lists "UN" twice and is reported with 2
C24_ListedTwice ==
    /\ Analysed
    /\ BatchNamesDistinct
    /\ \E i \in 1..Len(params.stakeholders) :
          /\ params.stakeholders[i].influence_connections = <<"UN", "UN">>
          /\ \E k \in 1..Len(analysis.relationship_analysis.key_connectors) :
                /\ analysis.relationship_analysis.key_connectors[k].name
                       = params.stakeholders[i].name
                /\ analysis.relationship_analysis.key_connectors[k].influences_count = 2

\* two records share a name and the count reported is not the length of the
\* list of one of them
C24_Overwritten ==
    /\ Analysed
    /\ ~BatchNamesDistinct
    /\ ~C24_OutDegree

\* C25: influenced_by is a set-valued reverse adjacency: the
\* influenced_by_count reported for a name is the number of distinct records
\* whose influences list contains the name, so a record that lists a name
\* twice adds one, not two, to the name's in-degree.
C25_InDegree ==
    Analysed =>
        \A k \in 1..Len(analysis.relationship_analysis.key_influencers) :
            LET c == analysis.relationship_analysis.key_influencers[k]
            IN  c.influenced_by_count =
                    Cardinality({i \in 1..Len(params.stakeholders) :
                        TimesListed(params.stakeholders[i].influence_connections,
                                    c.name) > 0})

\* what the code reports: the number of entries of the influences lists that
\* are the name
C25_CountsEntries ==
    Analysed =>
        \A k \in 1..Len(analysis.relationship_analysis.key_influencers) :
            LET c == analysis.relationship_analysis.key_influencers[k]
                f[i \in 0..Len(params.stakeholders)] ==
                    IF i = 0 THEN 0
                    ELSE f[i - 1] + TimesListed(params.stakeholders[i].influence_connections,
                                                c.name)
            IN  c.influenced_by_count = f[Len(params.stakeholders)]

\* names pairwise distinct, one record alone lists "UN", twice, and "UN" is
\* reported as influenced by two
C25_CountedTwice ==
    /\ Analysed
    /\ BatchNamesDistinct
    /\ Cardinality({i \in 1..Len(params.stakeholders) :
           TimesListed(params.stakeholders[i].influence_connections, "UN") > 0}) = 1
    /\ \E k \in 1..Len(analysis.relationship_analysis.key_influencers) :
          /\ analysis.relationship_analysis.key_influencers[k].name = "UN"
          /\ analysis.relationship_analysis.key_influencers[k].influenced_by_count = 2

---------------------------------------------------------------------------
(* Claims on the target of the HTTP leverage endpoint (SpecHttp)           *)

\* api_leverage_influence has returned an envelope of its own, the
\* not-found one or the tactics, no exception having been raised
LeverageAnswered ==
    /\ http_request # None
    /\ http_request.handler = "api_leverage_influence"
    /\ http_response.message # "Failed to develop tactics"

\* the names of the records of the payload sent
SentPayloadNames ==
    LET l == obj_get(http_request.request.stakeholders_analysis_json,
                     "stakeholders", JArr(<< >>)).arr
    IN  {obj_get(l[i], "name", JNull).str :
            i \in {j \in 1..Len(l) : is_dict(l[j]) /\ obj_has(l[j], "name")}}

NotFoundEnvelope ==
    /\ ~http_response.success
    /\ http_response.message = "Stakeholder not found"

\* C26: the HTTP leverage endpoint resolves the target by a case-insensitive
\* match against the record names: a target that differs from a record's
\* name in letter case only is found, and the not-found envelope is returned
\* only when no record name matches ignoring case.
C26_CaseInsensitive ==
    LeverageAnswered =>
        (NotFoundEnvelope <=>
            \A n \in SentPayloadNames :
                ~EqualIgnoringCase(n, http_request.request.target_stakeholder_name))

\* what the code does: the target is found iff a record bears exactly the
\* name sent
C26_ExactMatch ==
    LeverageAnswered =>
        (NotFoundEnvelope <=>
            http_request.request.target_stakeholder_name \notin SentPayloadNames)

\* the target "un" is sent with a payload holding the record "UN" and the
\* not-found envelope comes back
C26_CaseVariantNotFound ==
    /\ LeverageAnswered
    /\ http_request.request.target_stakeholder_name = "un"
    /\ "UN" \in SentPayloadNames
    /\ NotFoundEnvelope
    /\ http_response.error = Plain(<<"Stakeholder '", "un", "' not found in analysis">>)

---------------------------------------------------------------------------
(* Claims on the edges of the leverage tool (SpecLeverage)                 *)

\* the names listed in the pathway p of the strategy
ListedIn(p) ==
    {ReturnedStrategy.influence_pathways[p].influencers[j] :
        j \in 1..Len(ReturnedStrategy.influence_pathways[p].influencers)}

\* the names listed as influencers in some pathway of the strategy
Listed == UNION {ListedIn(p) : p \in 1..Len(ReturnedStrategy.influence_pathways)}

\* the target names that differ from t in letter case at most
CaseVariants(t) == {u \in UNION CaseClasses : EqualIgnoringCase(u, t)}

\* C27: the target is resolved, ignoring case, to the first matching record
\* of all_stakeholders, and the edges are matched by exact comparison with
\* the name stored on that record: a record is an influencer iff its
\* influences list holds exactly the stored name, an entry that differs from
\* it in letter case only makes no edge, and the result is the same for
\* every letter-case variant of target_stakeholder.
C27_ExactEdges ==
    LeverageStrategy =>
        /\ TargetMatches # {}
        /\ ResolvedName = Payload[CHOOSE i \in TargetMatches :
                                      \A j \in TargetMatches : i <= j].name
        /\ Listed = {Payload[i].name : i \in DirectInfluencers}
        /\ \A u \in CaseVariants(leverage_params.target_stakeholder) :
              leverage_outcome(u, leverage_params.stakeholder_analysis_data,
                               leverage_params.response_format) = leverage_result

\* the target was asked for in another letter case than the stored name,
\* and a record whose influences list holds a case variant of the stored
\* name, and not the stored name, is not among the influencers
C27_Witness ==
    /\ LeverageStrategy
    /\ leverage_params.target_stakeholder # ResolvedName
    /\ \E i \in 1..Len(Payload) :
          /\ \E j \in 1..Len(Payload[i].influence_connections) :
                /\ Payload[i].influence_connections[j] # ResolvedName
                /\ EqualIgnoringCase(Payload[i].influence_connections[j], ResolvedName)
          /\ i \notin DirectInfluencers
          /\ Payload[i].name \notin Listed

---------------------------------------------------------------------------
(* Claims on the Island of Agreement table (SpecTable)                     *)

\* the Markdown of an Island of Agreement analysis has been returned
TableRendered ==
    /\ params # None
    /\ "situation_description" \in DOMAIN params
    /\ params.response_format = "markdown"

\* the larger of two numbers
Larger(x, y) == IF x >= y THEN x ELSE y

\* the four lists of the analysis, in the order of the columns
Columns ==
    << analysis.contested_facts, analysis.agreed_facts,
       analysis.convergent_norms, analysis.divergent_norms >>

\* the cell of column c in the data row r of the table returned
Cell(r, c) == output.table[r][2 * c]

\* C28: the Island of Agreement table has exactly max(len(contested_facts),
\* len(agreed_facts), len(convergent_norms), len(divergent_norms)) data rows;
\* row i holds the i-th item of each list and an empty cell for a list that
\* has no i-th item, so every item of every list is in the table once, in
\* list order.
C28_RowPadding ==
    TableRendered =>
        /\ Len(output.table) = Larger(Larger(Len(Columns[1]), Len(Columns[2])),
                                      Larger(Len(Columns[3]), Len(Columns[4])))
        /\ \A r \in 1..Len(output.table) : \A c \in 1..4 :
              Cell(r, c) = IF r <= Len(Columns[c]) THEN Columns[c][r] ELSE ""
        /\ \A c \in 1..4 : \A k \in 1..Len(Columns[c]) :
              /\ k <= Len(output.table)
              /\ Cell(k, c) = Columns[c][k]
        /\ \A r \in 1..Len(output.table) :
              /\ Len(output.table[r]) = 9
              /\ output.table[r][1] = "| " /\ output.table[r][9] = " |\n"
              /\ \A s \in {3, 5, 7} : output.table[r][s] = " | "

\* the four lists have four different lengths, one of them empty: the table
\* has the rows of the longest and the others are padded
C28_Witness ==
    /\ TableRendered
    /\ Cardinality({Len(Columns[c]) : c \in 1..4}) = 4
    /\ \E c \in 1..4 : Len(Columns[c]) = 0
    /\ Len(output.table) = MaxRows
    /\ \E c \in 1..4 : Cell(MaxRows, c) = ""
    /\ \E c \in 1..4 : Cell(MaxRows, c) # ""

\* the table of the tool's own analysis: four rows with no empty cell
C28_ToolTable ==
    /\ TableRendered
    /\ Len(analysis.contested_facts) = 4
    /\ Len(output.table) = 4
    /\ \A r \in 1..4 : \A c \in 1..4 : Cell(r, c) # ""

---------------------------------------------------------------------------
(* Claims on the order of all_stakeholders (SpecLeverage)                  *)

\* the number of the three attributes of a record that are 0.7 or more
ScoreOf(s) ==
    (IF s.power >= 7 THEN 1 ELSE 0) + (IF s.urgency >= 7 THEN 1 ELSE 0)
        + (IF s.legitimacy >= 7 THEN 1 ELSE 0)

\* the record i of the batch b goes before the record j: larger score, or
\* equal score and larger power, or both equal and earlier in the batch
GoesBefore(b, i, j) ==
    \/ ScoreOf(b[i]) > ScoreOf(b[j])
    \/ ScoreOf(b[i]) = ScoreOf(b[j]) /\ b[i].power > b[j].power
    \/ ScoreOf(b[i]) = ScoreOf(b[j]) /\ b[i].power = b[j].power /\ i < j

\* the place of the record i of the batch b in that order
PlaceOf(b, i) == 1 + Cardinality({j \in 1..Len(b) : GoesBefore(b, j, i)})

\* the entry e is the entry of the record s
EntryOf(e, s) ==
    /\ e.name = s.name /\ e.power = s.power /\ e.urgency = s.urgency
    /\ e.legitimacy = s.legitimacy /\ e.position = s.position
    /\ e.influence_connections = s.influence_connections
    /\ e.priority_score = ScoreOf(s)

\* C29: all_stakeholders is ordered by priority_score descending, then power
\* descending, records equal in both keeping their input order; so
\* all_stakeholders is first_priority followed by second_priority followed
\* by third_priority, and metadata.total_stakeholders is the sum of the
\* sizes of the three groups.
C29_SortedConcatenation ==
    Analysed =>
        LET b  == params.stakeholders
            sa == analysis.all_stakeholders
            g  == analysis.priority_groups
        IN  /\ Len(sa) = Len(b)
            /\ \A i \in 1..Len(b) : EntryOf(sa[PlaceOf(b, i)], b[i])
            /\ sa = g.first_priority \o g.second_priority \o g.third_priority
            /\ analysis.metadata.total_stakeholders
                   = Len(g.first_priority) + Len(g.second_priority)
                         + Len(g.third_priority)

\* the first group has two records or more, another group is not empty and
\* the first record of the batch is not the first of all_stakeholders; two records of equal score stand in
\* all_stakeholders against their input order, the more powerful first; and
\* two records of equal score and power stand in their input order
C29_Witness ==
    /\ Analysed
    /\ Len(analysis.priority_groups.first_priority) >= 2
    /\ Len(analysis.priority_groups.second_priority)
           + Len(analysis.priority_groups.third_priority) >= 1
    /\ PlaceOf(params.stakeholders, 1) > 1
    /\ \E i, j \in 1..Len(params.stakeholders) :
          /\ i < j
          /\ ScoreOf(params.stakeholders[i]) = ScoreOf(params.stakeholders[j])
          /\ params.stakeholders[i].power < params.stakeholders[j].power
          /\ PlaceOf(params.stakeholders, j) < PlaceOf(params.stakeholders, i)
    /\ \E i, j \in 1..Len(params.stakeholders) :
          /\ i < j
          /\ ScoreOf(params.stakeholders[i]) = ScoreOf(params.stakeholders[j])
          /\ params.stakeholders[i].power = params.stakeholders[j].power
          /\ params.stakeholders[i].name # params.stakeholders[j].name
          /\ PlaceOf(params.stakeholders, i) < PlaceOf(params.stakeholders, j)

---------------------------------------------------------------------------
(* Claims on the two schemes side by side (SpecClassify)                   *)

\* the tier of a label of either surface: 1 for First, 2, 3
TierOf(label) ==
    IF label \in {"First Priority", "First"} THEN 1
    ELSE IF label \in {"Second Priority", "Second"} THEN 2
    ELSE 3

\* C30: the salience-sum scheme never ranks a record lower than the
\* threshold-count scheme: a record that is First under threshold-count is
\* First under salience-sum, and a record that is Second under
\* threshold-count is First or Second under salience-sum.
C30_NeverLower ==
    (Classified /\ ApiClassified) =>
        /\ TierOf(entry.priority) = 1 => TierOf(http_entry.priority_level) = 1
        /\ TierOf(entry.priority) = 2 => TierOf(http_entry.priority_level) <= 2

\* the record (0.7, 0.7, 0.7), the lowest that is First by the count, has
\* been ranked First by both schemes
C30_Witness ==
    /\ Classified
    /\ ApiClassified
    /\ sh.power = 7 /\ sh.urgency = 7 /\ sh.legitimacy = 7
    /\ TierOf(entry.priority) = 1
    /\ TierOf(http_entry.priority_level) = 1

\* the record (0.7, 0.7, 0.0), the lowest that is Second by the count, has
\* been ranked Second by both schemes
C30_LowestSecond ==
    /\ Classified
    /\ ApiClassified
    /\ sh.power = 7 /\ sh.urgency = 7 /\ sh.legitimacy = 0
    /\ TierOf(entry.priority) = 2
    /\ TierOf(http_entry.priority_level) = 2

=============================================================================
